---------------------------- MODULE Spec2Model ----------------------------
(***************************************************************************)
(* A model of the generative engine of src/services/AudioEngine.ts: the    *)
(* macro phase state machine, the evolution locks, the genetic algorithm   *)
(* over 16-step patterns, the song-structure generator and the Euclidean   *)
(* rhythm generator.                                                       *)
(*                                                                         *)
(* The engine instance is one record, `engine', whose fields are the       *)
(* private fields of the class.  Every method is an operator from an       *)
(* engine record to the engine record it leaves behind, so that a method   *)
(* calling another method is the composition of the two operators and an   *)
(* action is the whole public handler.                                     *)
(*                                                                         *)
(* Math.random is a generator whose state is the field `rng': every call   *)
(* site advances it (random) and reads the number it produced as a         *)
(* fraction rng / RngMod in [0,1).  The seed is an input of Init.          *)
(* Real-valued quantities are fixed point: velocities, micro-timing        *)
(* offsets and envelope times in thousandths, tempo in thousandths of a    *)
(* BPM, the filter cutoff in thousandths of a Hz.                          *)
(***************************************************************************)
EXTENDS Integers, Sequences, FiniteSets, TLC

VARIABLES
    engine,     \* the AudioEngine instance (its private fields) and Math.random's state
    nOps        \* number of control-surface calls made so far (bounds a run)

vars == <<engine, nOps>>

---------------------------------------------------------------------------
(* Bounds of the model *)

MaxSeed == 2            \* Init draws the generator's seed from SeedOf(0..MaxSeed)
MaxControlOps == 2      \* control-surface calls in a run of Spec
MaxMeasures == 8        \* measures played in a run of Spec
MaxCycleMeasures == 41  \* measures played in a run of SpecCycle
MaxEvolutions == 16     \* forced evolutions in a run of SpecGA
MaxSeedGA == 0          \* SpecGA draws the generator's seed from SeedOf(0..MaxSeedGA)
MaxEdits == 1           \* step edits and mood changes in a run of SpecGA
MaxClock == 200000      \* the audio clock at the end of a run of SpecClock (2 s)
MaxClockOps == 1        \* stop, tempo and bio-feedback calls in a run of SpecClock
MaxSeedClock == 0       \* SpecClock draws the generator's seed from SeedOf(0..MaxSeedClock)
MaxEuclidSteps == 16    \* SpecEuclid draws the lengths of the rhythms from 1..MaxEuclidSteps
MotifLen == 8           \* SpecFitness scores the patterns that repeat a motif of MotifLen steps
MaxChaosSteps == 100000 \* integration steps in a run of SpecChaos
MaxToggles == 3         \* edits of one step in a run of SpecToggle
MaxLiveMeasures == 48   \* measures played since the last start in a run of SpecLive
MaxLiveOps == 1         \* control-surface calls in a run of SpecLive
MaxSeedLive == 0        \* SpecLive draws the generator's seed from SeedOf(0..MaxSeedLive)
MaxSnapshots == 40      \* bio-feedback snapshots and slider moves in a run of SpecBio
MaxIndexToggles == 4    \* calls of togglePatternStep in a run of SpecIndex

---------------------------------------------------------------------------
(* Math.random *)

RngMod == 2^16

SeedOf(k) == (k * 7919 + 12345) % RngMod

\* one call of Math.random(): the generator advances; the number is s.rng / RngMod
random(s) == [s EXCEPT !.rng = (@ * 25173 + 13849) % RngMod]

\* Math.random() < num/den  and  Math.random() > num/den, for the draw r
below(r, num, den) == r * den < num * RngMod
above(r, num, den) == r * den > num * RngMod

\* Math.floor(Math.random() * n), for the draw r
floorMul(r, n) == (r * n) \div RngMod

Min(a, b) == IF a < b THEN a ELSE b
Max(a, b) == IF a > b THEN a ELSE b
Abs(a) == IF a < 0 THEN 0 - a ELSE a

\* Math.random().toString(36).substr(2, 5): the first five base-36 digits of
\* the fraction, trailing zero digits not being printed
RECURSIVE digits36(_, _)
digits36(frac, n) ==
    IF n = 0 \/ frac = 0 THEN <<>>
    ELSE <<(frac * 36) \div RngMod>> \o digits36((frac * 36) % RngMod, n - 1)

randomId(r) == digits36(r, 5)

\* slice(from), one element late
sliceFromNext(a, from) == IF from + 1 >= Len(a) THEN <<>> ELSE SubSeq(a, from + 2, Len(a))

\* array.slice(from) and array.slice(0, to), 0-based as in the source
sliceFrom(a, from) == IF from >= Len(a) THEN <<>> ELSE SubSeq(a, from + 1, Len(a))
sliceTo(a, to) == SubSeq(a, 1, Min(to, Len(a)))

---------------------------------------------------------------------------
(* constants.ts, types.ts *)

NULL == -1000           \* a rest: the null of (number | null)[]

SCALES ==
    [MINOR |-> <<0, 3, 5, 7, 10>>,
     PHRYGIAN |-> <<0, 2, 3, 7, 8>>,
     DORIAN |-> <<0, 2, 5, 7, 10>>,
     HARMONIC_MINOR |-> <<0, 1, 5, 7, 8>>]

ROOT_NOTES == <<41, 43, 45, 46, 48>>

BASE_TEMPO == 138

\* times are counted in units of 10 microseconds
LOOKAHEAD == 2500              \* 25.0 ms
SCHEDULE_AHEAD_TIME == 10000   \* 0.1 s

Moods == {"ETHEREAL", "DRIVING", "DARK", "EUPHORIC"}

phases == <<"DRIFT", "BUILD", "PEAK", "COMEDOWN">>

MacroPhases == {phases[i] : i \in DOMAIN phases}

phaseLengths == [DRIFT |-> 8, BUILD |-> 8, PEAK |-> 16, COMEDOWN |-> 8]

NoPattern == [nil |-> TRUE]    \* currentPattern: Pattern | null

\* what an array yields at an index it has no entry for
UNDEFINED == -2000

\* the notifications an operation hands to the callbacks (onLog, onPatternUpdate,
\* onPatchUpdate, onSchedulerTick), in the order it makes them
\* An entry is [kind, what, detail]: kind is the callback, what the message's head
\* (or the notification's name), detail what else it carries.
emit(s, kind, what, detail) ==
    [s EXCEPT !.out = Append(@, [kind |-> kind, what |-> what, detail |-> detail])]

\* log(type, message); the entry's id and timestamp are not kept
log(s, what, detail) == emit(s, "log", what, detail)

emitted(s, kind, what) ==
    \E i \in DOMAIN s.out : s.out[i].kind = kind /\ s.out[i].what = what

---------------------------------------------------------------------------
(* Euclidean rhythm generator *)

RECURSIVE euclidLoop(_, _, _, _)
euclidLoop(steps, pulses, i, bucket) ==
    IF i >= steps THEN <<>>
    ELSE LET b == bucket + pulses
         IN  IF b >= steps
             THEN <<TRUE>> \o euclidLoop(steps, pulses, i + 1, b - steps)
             ELSE <<FALSE>> \o euclidLoop(steps, pulses, i + 1, b)

\* euclidBase, the accents bunched at the start
euclidBunched(steps, pulses) == [i \in 1..steps |-> i <= pulses]

\* the pattern before rotation
euclidBase(steps, pulses) == euclidLoop(steps, pulses, 0, 0)

\* getEuclideanPattern, the steps before the rotation point not put back
getEuclideanPatternCut(steps, pulses, r) ==
    sliceFrom(euclidBase(steps, pulses), floorMul(r, steps))

\* getEuclideanPattern(steps, pulses) with the draw r of its rotation
getEuclideanPattern(steps, pulses, r) ==
    LET pattern == euclidBase(steps, pulses)
        rotation == floorMul(r, steps)
    IN  sliceFrom(pattern, rotation) \o sliceTo(pattern, rotation)

generateEuclideanRhythms(s) ==
    IF s.locks.rhythm /\ Len(s.hiHatPattern) > 0 THEN s
    ELSE LET s1 == random(s)
             hatHits == 4 + floorMul(s1.rng, 8)
             s2 == random(s1)
             hat == getEuclideanPattern(16, hatHits, s2.rng)
             s3 == random(s2)
             percHits == 2 + floorMul(s3.rng, 4)
             s4 == random(s3)
             perc == getEuclideanPattern(16, percHits, s4.rng)
         IN  log([s4 EXCEPT !.hiHatPattern = hat, !.percussionPattern = perc],
                 "RHYTHM_GEN", <<hatHits, percHits>>)

---------------------------------------------------------------------------
(* Harmony / song-structure generator *)

\* the offsets of chords 2..4 of a progression, each one draw
RECURSIVE drawOffsets(_, _)
drawOffsets(s, n) ==
    IF n = 0 THEN [s |-> s, offsets |-> <<>>]
    ELSE LET pentatonicIntervals == <<0, 0, 3, 5, 7, 10, -2, -5>>
             s1 == random(s)
             first == pentatonicIntervals[floorMul(s1.rng, Len(pentatonicIntervals)) + 1]
             rest == drawOffsets(s1, n - 1)
         IN  [s |-> rest.s, offsets |-> <<first>> \o rest.offsets]

\* lines 354-366: a new root and a new progression
newHarmony(s) ==
    LET s1 == random(s)
        idx == floorMul(s1.rng, Len(ROOT_NOTES))
        rootNote == ROOT_NOTES[idx + 1]
        progLength == 4
        d == drawOffsets(s1, progLength - 1)
    IN  [d.s EXCEPT !.rootNote = rootNote,
                    !.currentChordRoot = rootNote,
                    !.currentProgression =
                        [rootOffsets |-> <<0>> \o d.offsets, barLength |-> 4]]

\* regenerateHarmony, not reading the harmony lock
regenerateHarmonyUnlocked(s, timbreOnly) == IF ~timbreOnly THEN newHarmony(s) ELSE s

\* lines 353-367: the harmony is regenerated unless it is locked
regenerateHarmony(s, timbreOnly) ==
    IF ~s.locks.harmony /\ ~timbreOnly THEN newHarmony(s) ELSE s

\* lines 370-385: a new patch, notified
newPatch(s) ==
    LET waves == <<"sawtooth", "square", "triangle", "sawtooth">>
        ratios == <<500, 1000, 2000, 3000, 4000, 1500>>
        s1 == random(s)     \* synthType
        s2 == random(s1)    \* waveform
        s3 == random(s2)    \* attack
        s4 == random(s3)    \* decay
        s5 == random(s4)    \* sustain
        s6 == random(s5)    \* release
        s7 == random(s6)    \* detuneAmount
        s8 == random(s7)    \* fmDepth
        s9 == random(s8)    \* harmonicRatio
        s10 == random(s9)   \* filterType
        patch ==
            [type |-> IF above(s1.rng, 6, 10) THEN "FM" ELSE "SUBTRACTIVE",
             waveform |-> waves[floorMul(s2.rng, Len(waves)) + 1],
             attack |-> 5 + floorMul(s3.rng, 50),
             decay |-> 100 + floorMul(s4.rng, 300),
             sustain |-> floorMul(s5.rng, 400),
             release |-> 100 + floorMul(s6.rng, 500),
             detuneAmount |-> 5000 + floorMul(s7.rng, 20000),
             fmDepth |-> 200 + floorMul(s8.rng, 800),
             harmonicRatio |-> ratios[floorMul(s9.rng, 6) + 1],
             filterType |-> IF above(s10.rng, 9, 10) THEN "bandpass" ELSE "lowpass"]
    IN  emit([s10 EXCEPT !.currentPatch = patch], "patch", "patch", patch)

\* lines 369-386: the timbre is regenerated unless it is locked, and always when
\* only the timbre is asked for
regenerateTimbre(s, timbreOnly) ==
    IF ~s.locks.timbre \/ timbreOnly THEN newPatch(s) ELSE s

\* lines 388-390: new rhythms, unless rhythm is locked
regenerateRhythm(s) ==
    IF ~s.locks.rhythm THEN generateEuclideanRhythms(s) ELSE s

regenerateSongStructure(s, force, timbreOnly) ==
    IF ~force /\ ~s.isAutoEvolve THEN s
    ELSE log(regenerateRhythm(regenerateTimbre(regenerateHarmony(s, timbreOnly), timbreOnly)),
             "SONG_GENERATE", IF timbreOnly THEN "Timbre Mutation" ELSE "Full Structure")

---------------------------------------------------------------------------
(* Genetic algorithm and patterns *)

indexOf(scale, val) ==
    IF \E i \in DOMAIN scale : scale[i] = val
    THEN (CHOOSE i \in DOMAIN scale : scale[i] = val /\ \A j \in 1..(i - 1) : scale[j] # val) - 1
    ELSE -1

\* the forEach of calculateFitness from step i on: acc = [score, noteCount, lastNoteVal]
RECURSIVE fitnessLoop(_, _, _)
fitnessLoop(steps, i, acc) ==
    IF i > Len(steps) THEN acc
    ELSE LET val == steps[i]
             idx == i - 1
         IN  IF val = NULL THEN fitnessLoop(steps, i + 1, acc)
             ELSE LET down == IF idx % 4 = 0
                              THEN IF val = 0 \/ val = 7 \/ val = 12 THEN 10
                                   ELSE IF val = 3 \/ val = 4 \/ val = 5 THEN 5 ELSE 0
                              ELSE 0
                      interval == Abs(val - acc.lastNoteVal)
                      leap == IF acc.lastNoteVal # -100
                              THEN IF interval <= 4 THEN 5
                                   ELSE IF interval > 7 /\ interval # 12 THEN -5 ELSE 0
                              ELSE 0
                  IN  fitnessLoop(steps, i + 1,
                                  [score |-> acc.score + down + leap,
                                   noteCount |-> acc.noteCount + 1,
                                   lastNoteVal |-> val])

\* calculateFitness, the density of the pattern not scored
calculateFitnessAnyDensity(pattern) ==
    LET acc == fitnessLoop(pattern.steps, 1, [score |-> 0, noteCount |-> 0, lastNoteVal |-> -100])
        off == IF pattern.steps[3] # NULL \/ pattern.steps[11] # NULL THEN 5 ELSE 0
    IN  Max(0, acc.score + off)

calculateFitness(pattern) ==
    LET acc == fitnessLoop(pattern.steps, 1, [score |-> 0, noteCount |-> 0, lastNoteVal |-> -100])
        \* density = noteCount / 16; density > 0.25 && density < 0.75
        dens == IF acc.noteCount * 4 > 16 /\ acc.noteCount * 4 < 3 * 16 THEN 20 ELSE -10
        off == IF pattern.steps[3] # NULL \/ pattern.steps[11] # NULL THEN 5 ELSE 0
    IN  Max(0, acc.score + dens + off)

\* the loop of createRandomPattern: g = [rng, steps, velocity, offsets]
RECURSIVE randomSteps(_, _, _)
randomSteps(g, scale, n) ==
    IF n = 0 THEN g
    ELSE LET g1 == random(g)
         IN  IF above(g1.rng, 6, 10)
             THEN LET g2 == random(g1)
                      scaleDegree == floorMul(g2.rng, Len(scale))
                      g3 == random(g2)
                  IN  randomSteps([g3 EXCEPT !.steps = Append(@, scale[scaleDegree + 1]),
                                             !.velocity = Append(@, 500 + floorMul(g3.rng, 500)),
                                             !.offsets = Append(@, 0)],
                                  scale, n - 1)
             ELSE randomSteps([g1 EXCEPT !.steps = Append(@, NULL),
                                         !.velocity = Append(@, 0),
                                         !.offsets = Append(@, 0)],
                              scale, n - 1)

\* createRandomPattern(length): the pattern and the generator state it leaves
createRandomPattern(s, length) ==
    LET g == randomSteps([rng |-> s.rng, steps |-> <<>>, velocity |-> <<>>, offsets |-> <<>>],
                         s.currentScale, length)
        g1 == random(g)
    IN  [rng |-> g1.rng,
         pattern |-> [id |-> randomId(g1.rng), steps |-> g.steps, velocity |-> g.velocity,
                      offsets |-> g.offsets, generation |-> 0, parent |-> <<>>, score |-> 0]]

\* the loop of generateCounterPattern from step i on
RECURSIVE counterSteps(_, _, _, _)
counterSteps(g, main, scale, i) ==
    IF i > Len(main) THEN g
    ELSE LET mainNote == main[i]
             mainHasNote == mainNote # NULL
             g1 == random(g)
             plays == IF mainHasNote THEN below(g1.rng, 1, 10) ELSE below(g1.rng, 7, 10)
         IN  IF plays
             THEN LET g2 == random(g1)
                      interval == IF above(g2.rng, 5, 10) THEN 2 ELSE 4
                      currentIdx == indexOf(scale, mainNote)
                      degrees == <<0, 2, 4, 1>>
                      d == degrees[floorMul(g2.rng, Len(degrees)) + 1]
                      noteVal == IF mainHasNote
                                 THEN IF currentIdx # -1
                                      THEN scale[((currentIdx + interval) % Len(scale)) + 1]
                                      ELSE mainNote + 4
                                 ELSE scale[(d % Len(scale)) + 1]
                      g3 == random(g2)
                  IN  counterSteps([g3 EXCEPT !.steps = Append(@, noteVal + 12),
                                              !.velocity = Append(@, 400 + floorMul(g3.rng, 300)),
                                              !.offsets = Append(@, 0)],
                                   main, scale, i + 1)
             ELSE counterSteps([g1 EXCEPT !.steps = Append(@, NULL),
                                          !.velocity = Append(@, 0),
                                          !.offsets = Append(@, 0)],
                               main, scale, i + 1)

\* this.counterPattern = this.generateCounterPattern(this.currentPattern)
generateCounterPattern(s) ==
    LET mainPattern == s.currentPattern
        g == counterSteps([rng |-> s.rng, steps |-> <<>>, velocity |-> <<>>, offsets |-> <<>>],
                          mainPattern.steps, s.currentScale, 1)
    IN  [s EXCEPT !.rng = g.rng,
                  !.counterPattern =
                      [id |-> <<"CNTR_">> \o sliceTo(mainPattern.id, 3), steps |-> g.steps,
                       velocity |-> g.velocity, offsets |-> g.offsets,
                       generation |-> mainPattern.generation]]

\* one iteration of the mutation loop of evolvePattern on m = [rng, steps, velocity, offsets]
mutateStep(m, scale, isMassExtinction) ==
    LET m1 == random(m)
        idx == floorMul(m1.rng, Len(m.steps)) + 1
        hasNote == m.steps[idx] # NULL
    IN  IF hasNote
        THEN LET m2 == random(m1)
                 repitch == IF isMassExtinction THEN below(m2.rng, 5, 10) ELSE below(m2.rng, 8, 10)
                 currentVal == m.steps[idx]
                 currentDegreeIndex == indexOf(scale, currentVal)
                 \* currentDegreeIndex !== -1 && Math.random() > 0.4
                 m3 == IF currentDegreeIndex # -1 THEN random(m2) ELSE m2
                 adjacent == currentDegreeIndex # -1 /\ above(m3.rng, 4, 10)
                 m4 == random(m3)   \* the direction, or the random scale degree
                 direction == IF above(m4.rng, 5, 10) THEN 1 ELSE -1
                 newDegree ==
                     IF adjacent
                     THEN scale[((currentDegreeIndex + direction + Len(scale)) % Len(scale)) + 1]
                     ELSE scale[floorMul(m4.rng, Len(scale)) + 1]
                 m5 == random(m4)   \* the new velocity
                 a == IF repitch
                      THEN [m5 EXCEPT !.steps[idx] = newDegree,
                                      !.velocity[idx] = 500 + floorMul(m5.rng, 500)]
                      ELSE [m2 EXCEPT !.steps[idx] = NULL, !.velocity[idx] = 0,
                                      !.offsets[idx] = 0]
                 a1 == random(a)
                 a2 == random(a1)
                 drift == floorMul(a2.rng, 200) - 100
                 b == IF below(a1.rng, 3, 10)
                      THEN [a2 EXCEPT !.offsets[idx] = Max(-200, Min(200, @ + drift))]
                      ELSE a1
                 b1 == random(b)
             IN  IF (idx - 1) % 4 = 0
                 THEN IF above(b1.rng, 6, 10)
                      THEN [b1 EXCEPT !.velocity[idx] = Min(1000, (@ * 12) \div 10)]
                      ELSE b1
                 ELSE b
        ELSE LET m2 == random(m1)
                 insert == IF isMassExtinction THEN above(m2.rng, 5, 10) ELSE above(m2.rng, 85, 100)
                 m3 == random(m2)
             IN  IF insert
                 THEN [m3 EXCEPT !.steps[idx] = scale[floorMul(m3.rng, Len(scale)) + 1],
                                 !.velocity[idx] = 600, !.offsets[idx] = 0]
                 ELSE m2

RECURSIVE mutate(_, _, _, _)
mutate(m, scale, isMassExtinction, numMutations) ==
    IF numMutations = 0 THEN m
    ELSE mutate(mutateStep(m, scale, isMassExtinction), scale, isMassExtinction,
                numMutations - 1)

\* numMutationsOf, a mass extinction counted as any other generation
numMutationsDrawn(isMassExtinction, r) == 1 + floorMul(r, 2)

\* the number of iterations of the mutation loop; r is the draw of the normal case
numMutationsOf(isMassExtinction, r) == IF isMassExtinction THEN 8 ELSE 1 + floorMul(r, 2)

\* isElite, with the threshold at 0
isEliteAny(currentScore) == currentScore > 0

\* the score above which the outgoing pattern enters the elite archive
isElite(currentScore) == currentScore > 50

\* sortByScore, the sort left out
sortByScoreAppending(elite, p) == Append(elite, p)

\* sort((a, b) => (b.score || 0) - (a.score || 0)) of the archive with p pushed at
\* its end: the sort is stable, the archive was sorted
sortByScore(elite, p) ==
    LET before == {i \in DOMAIN elite : elite[i].score >= p.score}
        k == Cardinality(before)
    IN  SubSeq(elite, 1, k) \o <<p>> \o SubSeq(elite, k + 1, Len(elite))

\* lines 583-590: the conditional insertion of the scored outgoing pattern
archive(elite, scored) ==
    IF isElite(scored.score)
    THEN LET isDuplicate == \E i \in DOMAIN elite : elite[i].id = scored.id
         IN  IF ~isDuplicate
             THEN LET sorted == sortByScore(elite, scored)
                  IN  IF Len(sorted) > 10 THEN SubSeq(sorted, 1, Len(sorted) - 1) ELSE sorted
             ELSE elite
    ELSE elite

\* pushHistory, nothing dropped
pushHistoryUnbounded(history, p) == Append(history, p)

\* lines 592-593: push and shift of the history ring
pushHistory(history, p) ==
    LET pushed == Append(history, p)
    IN  IF Len(pushed) > 5 THEN Tail(pushed) ELSE pushed

\* retire, the generation counter left as it is
retireKeepingGeneration(s) ==
    LET current == [s.currentPattern EXCEPT !.score = calculateFitness(s.currentPattern)]
    IN  [s EXCEPT !.currentPattern = current,
                  !.elitePatterns = archive(@, current),
                  !.patternHistory = pushHistory(@, current)]

\* lines 575-594: the outgoing pattern is scored, archived and remembered, and the
\* generation counter advances
retire(s) ==
    LET current == [s.currentPattern EXCEPT !.score = calculateFitness(s.currentPattern)]
    IN  [s EXCEPT !.currentPattern = current,
                  !.elitePatterns = archive(@, current),
                  !.patternHistory = pushHistory(@, current),
                  !.currentGeneration = @ + 1]

\* partnerIndex, drawn over the whole history
partnerIndexAny(history, r) == floorMul(r, Len(history)) + 1

\* line 616: Math.floor(Math.random() * (this.patternHistory.length - 1)), the
\* index (from 1) of the partner of a plain crossover for the draw r
partnerIndex(history, r) == floorMul(r, Len(history) - 1) + 1

\* lines 596-661, the choice among the strategies: the draws it makes, the action it
\* logs, the partner of a crossover and the number of mutations otherwise
strategy(s) ==
    LET isMassExtinction == s.currentGeneration % 16 = 0
        s1 == random(s)     \* mutationType, never read
        \* elitePatterns.length > 0 && Math.random() < 0.3 && !isMassExtinction
        s2 == IF Len(s.elitePatterns) > 0 THEN random(s1) ELSE s1
        learning == Len(s.elitePatterns) > 0 /\ below(s2.rng, 3, 10) /\ ~isMassExtinction
        s3 == random(s2)    \* the partner of the learning crossover, or the draw of the else-if
        plain == above(s3.rng, 7, 10) /\ Len(s.patternHistory) >= 2 /\ ~isMassExtinction
        s4 == random(s3)    \* the partner of the plain crossover, or the number of mutations
    IN  IF learning
        THEN [rng |-> s3.rng, action |-> "LEARNING_CROSSOVER", numMutations |-> 0,
              partner |-> s.elitePatterns[floorMul(s3.rng, Len(s.elitePatterns)) + 1]]
        ELSE IF plain
        THEN [rng |-> s4.rng, action |-> "CROSSOVER", numMutations |-> 0,
              partner |-> s.patternHistory[partnerIndex(s.patternHistory, s4.rng)]]
        ELSE IF isMassExtinction
        THEN [rng |-> s3.rng, action |-> "MASS_EXTINCTION", partner |-> NoPattern,
              numMutations |-> numMutationsOf(TRUE, 0)]
        ELSE [rng |-> s4.rng, action |-> "MUTATION", partner |-> NoPattern,
              numMutations |-> numMutationsOf(FALSE, s4.rng)]

\* lines 596-661, the child of `current' under the chosen strategy st:
\* [rng, steps, velocity, offsets, parent]
offspring(current, st, scale) ==
    LET split == Len(current.steps) \div 2
    IN  IF st.action = "LEARNING_CROSSOVER"
        THEN [rng |-> st.rng,
              steps |-> sliceTo(current.steps, split) \o sliceFrom(st.partner.steps, split),
              velocity |-> sliceTo(current.velocity, split)
                           \o sliceFrom(st.partner.velocity, split),
              offsets |-> current.offsets,
              parent |-> <<current.id, st.partner.id>>]
        ELSE IF st.action = "CROSSOVER"
        THEN [rng |-> st.rng,
              steps |-> sliceTo(current.steps, split) \o sliceFrom(st.partner.steps, split),
              velocity |-> sliceTo(current.velocity, split)
                           \o sliceFrom(st.partner.velocity, split),
              offsets |-> sliceTo(current.offsets, split)
                          \o sliceFrom(st.partner.offsets, split),
              parent |-> <<current.id, st.partner.id>>]
        ELSE LET m == mutate([rng |-> st.rng, steps |-> current.steps,
                              velocity |-> current.velocity, offsets |-> current.offsets],
                             scale, st.action = "MASS_EXTINCTION", st.numMutations)
             IN  [rng |-> m.rng, steps |-> m.steps, velocity |-> m.velocity,
                  offsets |-> m.offsets, parent |-> <<current.id>>]

\* adopt, the child given the id of its parent
adoptKeepingId(s, st, child) ==
    LET c1 == random([rng |-> child.rng])
        newPattern == [id |-> s.currentPattern.id, steps |-> child.steps,
                       velocity |-> child.velocity, offsets |-> child.offsets,
                       generation |-> s.currentGeneration, parent |-> child.parent,
                       score |-> 0]
        t == generateCounterPattern([s EXCEPT !.rng = c1.rng, !.currentPattern = newPattern])
    IN  emit(log(t, "EVOLUTION", [action |-> st.action, gen |-> s.currentGeneration]),
             "pattern", "pattern", newPattern.id)

\* adopt, the child stamped with the generation of its parent
adoptKeepingStamp(s, st, child) ==
    LET c1 == random([rng |-> child.rng])
        newPattern == [id |-> randomId(c1.rng), steps |-> child.steps,
                       velocity |-> child.velocity, offsets |-> child.offsets,
                       generation |-> s.currentPattern.generation, parent |-> child.parent,
                       score |-> 0]
        t == generateCounterPattern([s EXCEPT !.rng = c1.rng, !.currentPattern = newPattern])
    IN  emit(log(t, "EVOLUTION", [action |-> st.action, gen |-> s.currentGeneration]),
             "pattern", "pattern", newPattern.id)

\* lines 663-666: the child becomes the current pattern of the new generation
adopt(s, st, child) ==
    LET c1 == random([rng |-> child.rng])
        newPattern == [id |-> randomId(c1.rng), steps |-> child.steps,
                       velocity |-> child.velocity, offsets |-> child.offsets,
                       generation |-> s.currentGeneration, parent |-> child.parent,
                       score |-> 0]
        t == generateCounterPattern([s EXCEPT !.rng = c1.rng, !.currentPattern = newPattern])
    IN  emit(log(t, "EVOLUTION", [action |-> st.action, gen |-> s.currentGeneration]),
             "pattern", "pattern", newPattern.id)

breed(s, st) == adopt(s, st, offspring(s.currentPattern, st, s.currentScale))

select(s) == breed(s, strategy(s))

\* the body of evolvePattern past genesis
reproduce(s) == select(retire(s))

genesis(s) ==
    LET c == createRandomPattern(s, 16)
        t == generateCounterPattern([s EXCEPT !.rng = c.rng, !.currentPattern = c.pattern])
    IN  emit(log(t, "GENESIS", 0), "pattern", "pattern", c.pattern.id)

\* evolvePattern, not reading the melody lock
evolvePatternIgnoringLock(s, force) ==
    IF ~s.isAutoEvolve /\ ~force THEN s
    ELSE IF s.currentPattern = NoPattern THEN genesis(s)
    ELSE reproduce(s)

evolvePattern(s, force) ==
    IF s.locks.melody /\ ~force THEN s
    ELSE IF ~s.isAutoEvolve /\ ~force THEN s
    ELSE IF s.currentPattern = NoPattern THEN genesis(s)
    ELSE reproduce(s)

---------------------------------------------------------------------------
(* Macro phase state machine *)

\* successor, one phase too far
successorSkipping(phase) ==
    LET currentIdx == (CHOOSE i \in DOMAIN phases : phases[i] = phase) - 1
    IN  phases[((currentIdx + 2) % Len(phases)) + 1]

\* phases[(currentIdx + 1) % phases.length]
successor(phase) ==
    LET currentIdx == (CHOOSE i \in DOMAIN phases : phases[i] = phase) - 1
    IN  phases[((currentIdx + 1) % Len(phases)) + 1]

\* rebirth, the generation counter left as it is
rebirthKeepingGeneration(s) ==
    IF s.macroPhase = "COMEDOWN" THEN regenerateSongStructure(s, FALSE, FALSE) ELSE s

\* rebirth, at the end of every phase
rebirthAtEveryPhase(s) ==
    [regenerateSongStructure(s, FALSE, FALSE) EXCEPT !.currentGeneration = 0]

\* lines 728-731: leaving COMEDOWN regenerates the song and restarts the generations
rebirth(s) ==
    IF s.macroPhase = "COMEDOWN"
    THEN [regenerateSongStructure(s, FALSE, FALSE) EXCEPT !.currentGeneration = 0]
    ELSE s

\* lines 733-741: the phase is entered, logged, and sets density and cutoff
enterPhase(s, next) ==
    LET s3 == log([s EXCEPT !.macroPhase = next], "MACRO_PHASE", next)
    IN  CASE next = "DRIFT" -> [s3 EXCEPT !.noteDensity = 20, !.filterCutoff = 400000]
          [] next = "BUILD" -> [s3 EXCEPT !.noteDensity = 60, !.filterCutoff = 2000000]
          [] next = "PEAK" -> [s3 EXCEPT !.noteDensity = 90, !.filterCutoff = 8000000]
          [] next = "COMEDOWN" -> [s3 EXCEPT !.noteDensity = 40, !.filterCutoff = 800000]

\* transitionPhase, the phase timer left running
transitionPhaseKeepingTimer(s) == enterPhase(rebirth(s), successor(s.macroPhase))

transitionPhase(s) ==
    enterPhase(rebirth([s EXCEPT !.phaseTimer = 0]), successor(s.macroPhase))

\* lines 711-717: the chord progression
advanceChord(s) ==
    LET chordDurationBars == s.currentProgression.barLength
    IN  IF s.measureCount % chordDurationBars = 0 /\ s.current16thNote = 0
        THEN LET index == (s.currentChordIndex + 1) % Len(s.currentProgression.rootOffsets)
                 offset == s.currentProgression.rootOffsets[index + 1]
             IN  log([s EXCEPT !.currentChordIndex = index,
                               !.currentChordRoot = s.rootNote + offset],
                     "CHORD_CHANGE", s.rootNote + offset)
        ELSE s

\* phaseClock, not reading the autonomous-evolution flag
phaseClockIgnoringMode(s) ==
    LET s1 == [s EXCEPT !.phaseTimer = @ + 1]
    IN  IF s1.phaseTimer >= phaseLengths[s1.macroPhase] THEN transitionPhase(s1) ELSE s1

\* lines 697-702: the phase timer and the autonomous transition
phaseClock(s) ==
    LET s1 == [s EXCEPT !.phaseTimer = @ + 1]
    IN  IF s1.phaseTimer >= phaseLengths[s1.macroPhase] /\ s1.isAutoEvolve
        THEN transitionPhase(s1)
        ELSE s1

\* evolveOnBar, not reading the measure counter
evolveOnEveryBar(s) == evolvePattern(s, FALSE)

\* line 705: the evolution of every fourth measure
evolveOnBar(s) == IF s.measureCount % 4 = 0 THEN evolvePattern(s, FALSE) ELSE s

\* lines 719-720: onSchedulerTick(step, meta, chaos)
schedulerTick(s) ==
    LET meta == [phase |-> s.macroPhase, gen |-> s.currentGeneration,
                 pattern |-> IF s.currentPattern = NoPattern THEN <<>>
                             ELSE s.currentPattern.id]
    IN  emit(s, "tick", "tick",
             [step |-> s.current16thNote, meta |-> meta, chaos |-> s.currentChaosVal])

handleMacroStructure(s) == schedulerTick(advanceChord(evolveOnBar(phaseClock(s))))

\* 0.25 * secondsPerBeat, the tempo being kept in thousandths of a BPM
stepInterval(tempo) == 1500000000 \div tempo

\* nextNote, the bookkeeping of the measure left out
nextNoteWithoutBookkeeping(s) ==
    LET s1 == [s EXCEPT !.nextNoteTime = @ + stepInterval(s.tempo),
                        !.current16thNote = @ + 1]
    IN  IF s1.current16thNote = 16
        THEN [s1 EXCEPT !.current16thNote = 0, !.measureCount = @ + 1]
        ELSE s1

nextNote(s) ==
    LET s1 == [s EXCEPT !.nextNoteTime = @ + stepInterval(s.tempo),
                        !.current16thNote = @ + 1]
    IN  IF s1.current16thNote = 16
        THEN handleMacroStructure([s1 EXCEPT !.current16thNote = 0, !.measureCount = @ + 1])
        ELSE s1

\* scheduleNote, not asking for the audio context
scheduleNoteUnguarded(s) ==
    emit([s EXCEPT !.lastScheduled = s.nextNoteTime], "note", "note",
         [beat |-> s.current16thNote, time |-> s.nextNoteTime])

\* scheduleNote(beatNumber, time) hands the voices of the step to the audio
\* context at `time', if there is one (ctx and masterGain are both set by
\* initialize()); it assigns no field of the engine, and the numbers it draws
\* are left to the seed
scheduleNote(s) ==
    IF ~s.ctx THEN s
    ELSE emit([s EXCEPT !.lastScheduled = s.nextNoteTime], "note", "note",
              [beat |-> s.current16thNote, time |-> s.nextNoteTime])

\* the drain loop of scheduler()
RECURSIVE drain(_)
drain(s) ==
    IF s.nextNoteTime < s.currentTime + SCHEDULE_AHEAD_TIME
    THEN drain(nextNote(scheduleNote(s)))
    ELSE s

\* timerID is null, or the handle of a timeout that is pending or has fired;
\* orphans counts the pending timeouts whose handle the engine no longer holds
Pending == 1
Fired == 2

\* the timeouts that can fire
pendingTimers(s) ==
    (IF s.timerID = Pending THEN {"held"} ELSE {})
        \cup (IF s.orphans > 0 THEN {"orphan"} ELSE {})

\* a timeout fires: () => this.scheduler()
fired(s, which) ==
    IF which = "held" THEN [s EXCEPT !.timerID = Fired] ELSE [s EXCEPT !.orphans = @ - 1]

\* the state of the chaos engine is kept in millionths; a product of two
\* such numbers is taken on their thousandths
chaosParams == [sigma |-> 10, rho |-> 28000000, beta |-> [num |-> 8, den |-> 3]]

times(a, b) == (a \div 1000) * (b \div 1000)

\* the change of the Lorenz system over dt = 0.008 = 1/125
lorenzStep(c) ==
    [x |-> (chaosParams.sigma * (c.y - c.x)) \div 125,
     y |-> (times(c.x, chaosParams.rho - c.z) - c.y) \div 125,
     z |-> (times(c.x, c.y) - (chaosParams.beta.num * c.z) \div chaosParams.beta.den) \div 125]

integrate(c) ==
    [x |-> c.x + lorenzStep(c).x, y |-> c.y + lorenzStep(c).y, z |-> c.z + lorenzStep(c).z]

\* publish, the attractor's x over a range of 25 and not clamped
publishOverHalfRange(x) == (x + 25000000) \div 25

\* Math.max(0, Math.min(1, (x + 25) / 50))
publish(x) == Max(0, Min(1000000, (x + 25000000) \div 50))

updateChaos(s) ==
    [s EXCEPT !.chaos = integrate(s.chaos),
              !.currentChaosVal = publish(integrate(s.chaos).x)]

\* rearm, no timeout set
rearmForgotten(s) == IF s.isPlaying THEN updateChaos(s) ELSE s

\* lines 679-682: while the engine plays the scheduler ticks the chaos engine
\* and re-arms its timer
rearm(s) ==
    IF s.isPlaying
    THEN [updateChaos(s) EXCEPT !.orphans = IF s.timerID = Pending THEN @ + 1 ELSE @,
                                !.timerID = Pending]
    ELSE s

scheduler(s) == IF ~s.ctx THEN s ELSE rearm(drain(s))

---------------------------------------------------------------------------
(* Control surface *)

applyMoodParams(s, mood) ==
    CASE mood = "ETHEREAL" -> [s EXCEPT !.currentScale = SCALES.DORIAN]
      [] mood = "DARK" -> [s EXCEPT !.currentScale = SCALES.PHRYGIAN]
      [] mood = "DRIVING" -> [s EXCEPT !.currentScale = SCALES.MINOR]
      [] mood = "EUPHORIC" -> [s EXCEPT !.currentScale = SCALES.HARMONIC_MINOR]

\* this.ctx && this.delayFeedback: both are set by initialize()
setMood(s, mood) ==
    LET s1 == [s EXCEPT !.currentMood = mood]
        s2 == IF s1.ctx THEN applyMoodParams(s1, mood) ELSE s1
    IN  log(s2, "MOOD_SHIFT", mood)

\* setTempo, the request stored as it comes
setTempoUnclamped(s, bpm) == [s EXCEPT !.tempo = bpm]

setTempo(s, bpm) == [s EXCEPT !.tempo = Max(60000, Min(200000, bpm))]

\* line 472, the normalized values in thousandths
updateParams(s, cutoffNorm, resonanceNorm) ==
    [s EXCEPT !.filterCutoff = 100000 + cutoffNorm * 11900, !.resonance = resonanceNorm * 20]

setSynthesisType(s, type) ==
    log([s EXCEPT !.currentPatch.type = type], "ENGINE_MODE", type)

setPatchParam(s, param, value) ==
    LET s1 == [s EXCEPT !.currentPatch[param] = value]
        s2 == emit(s1, "patch", "patch", s1.currentPatch)
    IN  IF s2.isAutoEvolve THEN [s2 EXCEPT !.locks.timbre = TRUE] ELSE s2

setEvolutionState(s, isAuto, locks) ==
    log([s EXCEPT !.isAutoEvolve = isAuto, !.locks = locks],
        "MODE", IF isAuto THEN "AUTO-EVOLVE" ELSE "MANUAL_ARCHITECT")

manualMutate(s, target) ==
    CASE target = "melody" -> evolvePattern(s, TRUE)
      [] target = "timbre" -> regenerateSongStructure(s, FALSE, TRUE)
      [] target = "rhythm" -> generateEuclideanRhythms(s)

\* forcePhase, the phase timer left running
forcePhaseKeepingTimer(s, phase) ==
    log([s EXCEPT !.macroPhase = phase], "PHASE_FORCED", phase)

forcePhase(s, phase) ==
    log([s EXCEPT !.macroPhase = phase, !.phaseTimer = 0], "PHASE_FORCED", phase)

\* lockMelodyOnEdit, the lock left as it is
lockMelodyOnEditForgotten(s) == s

\* lines 288-292: an edit made while evolution is autonomous locks the melody
lockMelodyOnEdit(s) ==
    IF s.isAutoEvolve
    THEN log([s EXCEPT !.locks.melody = TRUE], "User Edit: Melody Locked", 0)
    ELSE s

\* a[index] read from a JavaScript array, for an index from 0: an index past
\* the end reads undefined
readAt(a, index) == IF index < Len(a) THEN a[index + 1] ELSE UNDEFINED

\* a[index] = v on a JavaScript array, for an index from 0: an index past the
\* end lengthens the array, the entries in between being holes
writeAt(a, index, v) ==
    IF index < Len(a) THEN [a EXCEPT ![index + 1] = v]
    ELSE a \o [i \in 1..(index - Len(a)) |-> UNDEFINED] \o <<v>>

\* togglePatternStep(index) for an index from 0
togglePatternStep(s, index) ==
    IF s.currentPattern = NoPattern THEN s
    ELSE LET current == readAt(s.currentPattern.steps, index)
             s1 == random(s)
             degree == floorMul(s1.rng, Len(s.currentScale))
             a == IF current = NULL
                  THEN [s EXCEPT !.currentPattern.steps = writeAt(@, index, 0),
                                 !.currentPattern.velocity = writeAt(@, index, 800)]
                  ELSE IF current = 0
                  THEN [s1 EXCEPT !.currentPattern.steps =
                                      writeAt(@, index, s.currentScale[degree + 1])]
                  ELSE [s EXCEPT !.currentPattern.steps = writeAt(@, index, NULL),
                                 !.currentPattern.velocity = writeAt(@, index, 0)]
         IN  lockMelodyOnEdit(emit(a, "pattern", "pattern", a.currentPattern.id))

\* stats = [population, averageEnergy (0..100), dominantType, synergy (hundredths)]
\* lines 206-214: the tempo drifts a hundredth of the way to its target
bioTempo(s, stats) ==
    LET \* energyFactor = averageEnergy / 100
        targetTempo == BASE_TEMPO * 1000 + stats.averageEnergy * 100 - 5000
    IN  IF s.ctx /\ Abs(s.tempo - targetTempo) > 1000
        THEN setTempo(s, s.tempo + (targetTempo - s.tempo) \div 100)
        ELSE s

\* lines 217-221: the cutoff moves a twentieth of the way to its target
bioFilter(s, stats) ==
    LET targetCutoff == 200 + stats.averageEnergy * 6
    IN  IF ~s.locks.timbre
        THEN [s EXCEPT !.filterCutoff = @ + ((targetCutoff - @) * 5) \div 100]
        ELSE s

\* lines 224-230
bioRhythm(s, stats) ==
    IF ~s.locks.rhythm /\ stats.population > 80 /\ s.macroPhase # "PEAK"
    THEN generateEuclideanRhythms(s)
    ELSE s

\* lines 233-241: !this.locks.harmony && Math.random() < 0.01
bioMood(s, stats) ==
    IF s.locks.harmony THEN s
    ELSE LET c1 == random(s)
         IN  IF below(c1.rng, 1, 100)
             THEN IF stats.synergy > 50 /\ c1.currentMood = "DARK"
                  THEN setMood(c1, "EUPHORIC")
                  ELSE IF stats.synergy < 20 /\ c1.currentMood = "EUPHORIC"
                  THEN setMood(c1, "DARK")
                  ELSE c1
             ELSE c1

\* lines 244-252: !this.locks.timbre && Math.random() < 0.05
bioTimbre(s, stats) ==
    IF s.locks.timbre THEN s
    ELSE LET d1 == random(s)
         IN  IF below(d1.rng, 5, 100)
             THEN IF stats.dominantType = "THINKER" /\ d1.currentPatch.type # "FM"
                  THEN setSynthesisType(d1, "FM")
                  ELSE IF stats.dominantType = "BUILDER"
                          /\ d1.currentPatch.waveform # "square"
                  THEN setPatchParam(d1, "waveform", "square")
                  ELSE IF stats.dominantType = "FEELER"
                          /\ d1.currentPatch.type # "SUBTRACTIVE"
                  THEN setSynthesisType(d1, "SUBTRACTIVE")
                  ELSE d1
             ELSE d1

injectBioFeedback(s, stats) ==
    IF ~s.isAutoEvolve THEN s
    ELSE bioTimbre(bioMood(bioRhythm(bioFilter(bioTempo(s, stats), stats), stats), stats),
                   stats)

\* line 198: this.setMood(this.currentMood)
restoreMood(s) == setMood(s, s.currentMood)

initialize(s) ==
    IF s.ctx THEN s
    ELSE restoreMood(
             evolvePattern(
                 regenerateSongStructure(
                     log(log([s EXCEPT !.ctx = TRUE], "Initializing AudioContext...", 0),
                         "DSP Chain", 0),
                     TRUE, FALSE),
                 TRUE))

\* begin, the first step due at once
beginAtOnce(s) ==
    log([s EXCEPT !.isPlaying = TRUE, !.current16thNote = 0, !.measureCount = 0,
                  !.nextNoteTime = s.currentTime],
        "SEQUENCE_INITIATED", 0)

\* lines 427-431
begin(s) ==
    log([s EXCEPT !.isPlaying = TRUE, !.current16thNote = 0, !.measureCount = 0,
                  !.nextNoteTime = s.currentTime + 10000],
        "SEQUENCE_INITIATED", 0)

\* start, not asking whether the engine plays already
startWhilePlaying(s) == scheduler(begin(IF ~s.ctx THEN initialize(s) ELSE s))

start(s) ==
    IF s.isPlaying THEN s
    ELSE scheduler(begin(IF ~s.ctx THEN initialize(s) ELSE s))

\* stop, the timeout left pending
stopLeavingTimer(s) == log([s EXCEPT !.isPlaying = FALSE], "SEQUENCE_TERMINATED", 0)

\* clearTimeout cancels the held timeout if it is pending
stop(s) ==
    log([s EXCEPT !.isPlaying = FALSE, !.timerID = NULL], "SEQUENCE_TERMINATED", 0)

\* the fields as the class declares them, then the constructor
fields(seed) ==
    [rng |-> seed,
     out |-> <<>>,
     ctx |-> FALSE,
     chaos |-> [x |-> 100000, y |-> 0, z |-> 0],
     currentChaosVal |-> 0,
     currentTime |-> 0,      \* ctx.currentTime, the clock of the audio context
     lastScheduled |-> -1,   \* the time of the latest step handed to the audio context
     nextNoteTime |-> 0,
     timerID |-> NULL,
     orphans |-> 0,
     current16thNote |-> 0,
     measureCount |-> 0,
     isPlaying |-> FALSE,
     tempo |-> BASE_TEMPO * 1000,
     rootNote |-> ROOT_NOTES[1],
     currentScale |-> SCALES.MINOR,
     currentMood |-> "ETHEREAL",
     filterCutoff |-> 500000,
     resonance |-> 0,
     noteDensity |-> 20,
     isAutoEvolve |-> TRUE,
     locks |-> [melody |-> FALSE, timbre |-> FALSE, harmony |-> FALSE, rhythm |-> FALSE],
     currentPattern |-> NoPattern,
     counterPattern |-> NoPattern,
     patternHistory |-> <<>>,
     elitePatterns |-> <<>>,
     currentGeneration |-> 0,
     macroPhase |-> "DRIFT",
     phaseTimer |-> 0,
     currentPatch |-> [type |-> "SUBTRACTIVE", waveform |-> "sawtooth", attack |-> 10,
                       decay |-> 200, sustain |-> 100, release |-> 100,
                       detuneAmount |-> 10000, fmDepth |-> 0, harmonicRatio |-> 2000,
                       filterType |-> "lowpass"],
     currentProgression |-> [rootOffsets |-> <<0, 0, 0, 0>>, barLength |-> 4],
     currentChordIndex |-> 0,
     currentChordRoot |-> 0,
     hiHatPattern |-> <<>>,
     percussionPattern |-> <<>>]

constructed(seed) == [generateEuclideanRhythms(fields(seed)) EXCEPT !.out = <<>>]

---------------------------------------------------------------------------
(* The inputs of the control surface *)

\* the locks after the user flips one switch of the panel
LockNames == {"melody", "timbre", "harmony", "rhythm"}

flipped(locks, name) == [locks EXCEPT ![name] = ~@]

\* the steps a user edits
EditedSteps == {0, 15}

\* the snapshots of the life simulation
BioSnapshots ==
    {[population |-> 90, averageEnergy |-> 100, dominantType |-> "THINKER", synergy |-> 90],
     [population |-> 10, averageEnergy |-> 0, dominantType |-> "BUILDER", synergy |-> 10],
     [population |-> 50, averageEnergy |-> 50, dominantType |-> "FEELER", synergy |-> 50]}

\* an operation starts with nothing notified yet
entering == [engine EXCEPT !.out = <<>>]

---------------------------------------------------------------------------
(* Actions: one per public method, and one for the timer-driven scheduler *)

Initialize ==
    /\ ~engine.ctx
    /\ engine' = initialize(entering)

Start ==
    /\ ~engine.isPlaying
    /\ engine' = start(entering)

Stop ==
    /\ engine' = stop(entering)

\* the clock of the audio context has reached t
at(s, t) == [s EXCEPT !.currentTime = t]

\* the time at which the 16 steps of the measure that starts at nextNoteTime are due
measureDue(s) == s.nextNoteTime + 16 * stepInterval(s.tempo) - SCHEDULE_AHEAD_TIME

\* the timer fires when the steps of one whole measure are due: the scheduler
\* drains the 16 steps, the last nextNote wraps the step index and runs the
\* measure's bookkeeping.  The 15 steps before it write current16thNote and
\* nextNoteTime only, which no control method of Spec reads, so a control call
\* made inside the measure acts as one made at its start.
Measure ==
    \E which \in pendingTimers(engine) :
        engine' = scheduler(at(fired(entering, which), measureDue(engine)))

SetEvolutionState ==
    \/ engine' = setEvolutionState(entering, ~engine.isAutoEvolve, engine.locks)
    \/ \E name \in LockNames :
          engine' = setEvolutionState(entering, engine.isAutoEvolve, flipped(engine.locks, name))

ForcePhase ==
    \E phase \in MacroPhases : engine' = forcePhase(entering, phase)

ManualMutate(target) ==
    engine' = manualMutate(entering, target)

TogglePatternStep ==
    \E index \in EditedSteps : engine' = togglePatternStep(entering, index)

SetMood ==
    \E mood \in Moods \ {engine.currentMood} : engine' = setMood(entering, mood)

SetPatchParam ==
    engine' = setPatchParam(entering, "waveform", "triangle")

SetSynthesisType ==
    engine' = setSynthesisType(entering, "FM")

InjectBioFeedback ==
    \E stats \in BioSnapshots : engine' = injectBioFeedback(entering, stats)

Init ==
    /\ \E k \in 0..MaxSeed : engine = constructed(SeedOf(k))
    /\ nOps = 0

Control ==
    /\ nOps < MaxControlOps
    /\ nOps' = nOps + 1
    /\ \/ Stop
       \/ SetEvolutionState
       \/ ForcePhase
       \/ \E target \in {"melody", "timbre", "rhythm"} : ManualMutate(target)
       \/ TogglePatternStep
       \/ SetMood
       \/ SetPatchParam
       \/ SetSynthesisType
       \/ InjectBioFeedback

Next ==
    \/ Initialize /\ UNCHANGED nOps
    \/ Start /\ UNCHANGED nOps
    \/ engine.measureCount < MaxMeasures /\ Measure /\ UNCHANGED nOps
    \/ Control

Spec == Init /\ [][Next]_vars

\* one whole macro cycle played without any control change
NextCycle ==
    \/ Start /\ UNCHANGED nOps
    \/ engine.measureCount < MaxCycleMeasures /\ Measure /\ UNCHANGED nOps

SpecCycle == Init /\ [][NextCycle]_vars

\* the genetic algorithm driven by forced evolutions, with step edits and mood changes
Edit ==
    /\ nOps < MaxEdits
    /\ nOps' = nOps + 1
    /\ \/ TogglePatternStep
       \/ SetMood

NextGA ==
    \/ Initialize /\ UNCHANGED nOps
    \/ engine.currentGeneration < MaxEvolutions /\ ManualMutate("melody") /\ UNCHANGED nOps
    \/ Edit

InitGA ==
    /\ \E k \in 0..MaxSeedGA : engine = constructed(SeedOf(k))
    /\ nOps = 0

SpecGA == InitGA /\ [][NextGA]_vars

\* the transport against the clock of the audio context: the timer of the
\* scheduler fires LOOKAHEAD after it was armed, or later when the page is throttled
Delays == {LOOKAHEAD, 40 * LOOKAHEAD}

\* the tempi requested of setTempo, in thousandths of a BPM
TempoRequests == {0, 150000, 999000}

elapse(s, d) == at(s, s.currentTime + d)

Scheduler ==
    \E which \in pendingTimers(engine), d \in Delays :
        /\ engine.currentTime + d <= MaxClock
        /\ engine' = scheduler(elapse(fired(entering, which), d))

\* time passes while no timer is armed
Elapse ==
    /\ engine.ctx
    /\ pendingTimers(engine) = {}
    /\ \E d \in Delays :
          /\ engine.currentTime + d <= MaxClock
          /\ engine' = elapse(entering, d)

SetTempo ==
    \E bpm \in TempoRequests : engine' = setTempo(entering, bpm)

ClockControl ==
    /\ nOps < MaxClockOps
    /\ nOps' = nOps + 1
    /\ \/ Stop
       \/ SetTempo
       \/ InjectBioFeedback

NextClock ==
    \/ Start /\ UNCHANGED nOps
    \/ Scheduler /\ UNCHANGED nOps
    \/ Elapse /\ UNCHANGED nOps
    \/ ClockControl

InitClock ==
    /\ \E k \in 0..MaxSeedClock : engine = constructed(SeedOf(k))
    /\ nOps = 0

SpecClock == InitClock /\ [][NextClock]_vars

\* getEuclideanPattern on its own: the arguments, the pattern before rotation
\* and the pattern returned
RotationDraws == {0, 20000, 43000, RngMod - 1}

InitEuclid ==
    /\ \E steps \in 1..MaxEuclidSteps, pulses \in 1..MaxEuclidSteps :
          /\ pulses <= steps
          /\ engine = [steps |-> steps, pulses |-> pulses, pattern |-> <<>>, rotated |-> <<>>]
    /\ nOps = 0

GetEuclideanPattern ==
    /\ nOps' = 1
    /\ \E r \in RotationDraws :
          engine' = [engine EXCEPT !.pattern = euclidBase(engine.steps, engine.pulses),
                                   !.rotated = getEuclideanPattern(engine.steps,
                                                                   engine.pulses, r)]

SpecEuclid == InitEuclid /\ [][GetEuclideanPattern]_vars

\* calculateFitness on its own: the pattern scored repeats a motif over the
\* rest, the root and degrees of the scales (2, 8, 10) that earn no downbeat bonus
MotifPitches == {NULL, 0, 2, 8, 10}

repeated(motif) == [i \in 1..16 |-> motif[((i - 1) % Len(motif)) + 1]]

InitFitness ==
    /\ \E motif \in [1..MotifLen -> MotifPitches] :
          engine = [steps |-> repeated(motif), score |-> NULL]
    /\ nOps = 0

CalculateFitness ==
    /\ nOps = 0
    /\ nOps' = 1
    /\ engine' = [engine EXCEPT !.score = calculateFitness(engine)]

SpecFitness == InitFitness /\ [][CalculateFitness]_vars

\* the user clicks one step of the pattern display again and again; the engine
\* has been initialized, in any mood and with Math.random anywhere in its
\* sequence, and the step clicked (kept in the field `edited') is a rest
RandomStates == {k * 4099 : k \in 0..15}

InitToggle ==
    /\ \E k \in 0..MaxSeed, mood \in Moods, r \in RandomStates, index \in EditedSteps :
          /\ initialize(constructed(SeedOf(k))).currentPattern.steps[index + 1] = NULL
          /\ engine = [setMood(initialize(constructed(SeedOf(k))), mood)
                           EXCEPT !.rng = r, !.out = <<>>] @@ [edited |-> index]
    /\ nOps = 0

ToggleAgain ==
    /\ nOps < MaxToggles
    /\ nOps' = nOps + 1
    /\ engine' = togglePatternStep(entering, engine.edited)

SpecToggle == InitToggle /\ [][ToggleAgain]_vars

\* the engine left playing: the host fires the timer the scheduler re-armed
\* (window.setTimeout), so the measure's step is taken whenever it stays
\* possible; the user may stop, switch modes and locks, force a phase or edit
\* a step
LiveMeasure ==
    /\ engine.measureCount < MaxLiveMeasures
    /\ Measure
    /\ UNCHANGED nOps

LiveControl ==
    /\ nOps < MaxLiveOps
    /\ nOps' = nOps + 1
    /\ \/ Stop
       \/ SetEvolutionState
       \/ ForcePhase
       \/ TogglePatternStep

NextLive ==
    \/ Start /\ UNCHANGED nOps
    \/ LiveMeasure
    \/ LiveControl

InitLive ==
    /\ \E k \in 0..MaxSeedLive : engine = constructed(SeedOf(k))
    /\ nOps = 0

\* ENABLED <<LiveMeasure>>_vars: a timer is pending and a measure is left to
\* play (the step always moves the clock)
measurePending == engine.measureCount < MaxLiveMeasures /\ pendingTimers(engine) # {}

\* WF_vars(LiveMeasure), its ENABLED written out as measurePending: the
\* measure's step is not possible for ever without being taken
timerFires == []<>(~measurePending) \/ []<><<LiveMeasure>>_vars

SpecLive == InitLive /\ [][NextLive]_vars /\ timerFires

\* the life simulation feeds the initialized engine one snapshot after another
\* (the snapshot, kept in the field `stats', stays the same over a run) while
\* the user moves the cutoff slider of the panel
CutoffNorms == {0, 300, 1000}

InitBio ==
    /\ \E stats \in BioSnapshots :
          engine = [initialize(constructed(SeedOf(0))) EXCEPT !.out = <<>>] @@ [stats |-> stats]
    /\ nOps = 0

Snapshot ==
    /\ nOps < MaxSnapshots
    /\ nOps' = nOps + 1
    /\ engine' = injectBioFeedback(entering, engine.stats)

UpdateParams ==
    /\ nOps < MaxSnapshots
    /\ nOps' = nOps + 1
    /\ \E cutoffNorm \in CutoffNorms : engine' = updateParams(entering, cutoffNorm, 100)

NextBio ==
    \/ Snapshot
    \/ UpdateParams

SpecBio == InitBio /\ [][NextBio]_vars

\* togglePatternStep called with any index from 0, also past the 16 steps of
\* the pattern, on the initialized engine
ToggleIndices == {0, 15, 16, 18}

InitIndex ==
    /\ \E k \in 0..MaxSeed :
          engine = [initialize(constructed(SeedOf(k))) EXCEPT !.out = <<>>]
    /\ nOps = 0

ToggleAnywhere ==
    /\ nOps < MaxIndexToggles
    /\ nOps' = nOps + 1
    /\ \E index \in ToggleIndices : engine' = togglePatternStep(entering, index)

SpecIndex == InitIndex /\ [][ToggleAnywhere]_vars

\* updateChaos on its own, from the state the class declares
InitChaos ==
    /\ engine = [chaos |-> fields(0).chaos, currentChaosVal |-> fields(0).currentChaosVal]
    /\ nOps = 0

UpdateChaos ==
    /\ nOps < MaxChaosSteps
    /\ nOps' = nOps + 1
    /\ engine' = updateChaos(engine)

SpecChaos == InitChaos /\ [][UpdateChaos]_vars

---------------------------------------------------------------------------
(* Properties *)

Range(f) == {f[i] : i \in DOMAIN f}

\* the edges of the macro cycle
CycleEdges ==
    {<<"DRIFT", "BUILD">>, <<"BUILD", "PEAK">>, <<"PEAK", "COMEDOWN">>,
     <<"COMEDOWN", "DRIFT">>}

\* the strategy logged by the evolution of the last operation
evolvedBy(action) ==
    \E i \in DOMAIN engine.out :
        engine.out[i].what = "EVOLUTION" /\ engine.out[i].detail.action = action

\* C1: a measure's bookkeeping either leaves the macro phase alone or, when it
\* makes the autonomous transition, moves it to the immediate successor in the
\* cycle DRIFT -> BUILD -> PEAK -> COMEDOWN -> DRIFT, whatever control changes
\* and bio-feedback snapshots came before.
C1_AutonomousTransitionFollowsCycle ==
    [][Measure =>
          IF emitted(engine', "log", "MACRO_PHASE")
          THEN <<engine.macroPhase, engine'.macroPhase>> \in CycleEdges
          ELSE engine'.macroPhase = engine.macroPhase]_vars

\* an autonomous transition out of a phase that a control change had forced
C1_TransitionAfterForcedPhase ==
    /\ nOps > 0
    /\ emitted(engine, "log", "MACRO_PHASE")
    /\ engine.macroPhase = "DRIFT"

\* C2, as stated: after the bookkeeping of 40 consecutive measures from the
\* initial state the phase is DRIFT, the generation counter equals 0 and the
\* song structure has been regenerated.
C2_GenerationZeroAfterFortyMeasures ==
    engine.measureCount = 40 =>
        /\ engine.macroPhase = "DRIFT"
        /\ engine.currentGeneration = 0
        /\ emitted(engine, "log", "SONG_GENERATE")

\* C2, amended: after the bookkeeping of 40 consecutive measures from the
\* initial state the phase is DRIFT, the song structure has been regenerated,
\* and the generation counter, reset to 0 by the rebirth, equals 1: the
\* evolution tick of the 40th measure ran after the reset, on a pattern of
\* generation 9.
C2_RebirthThenEvolutionAfterFortyMeasures ==
    engine.measureCount = 40 =>
        /\ engine.macroPhase = "DRIFT"
        /\ emitted(engine, "log", "MACRO_PHASE")
        /\ emitted(engine, "log", "SONG_GENERATE")
        /\ emitted(engine, "log", "EVOLUTION")
        /\ engine.currentGeneration = 1
        /\ engine.currentPattern.generation = 1
        /\ engine.patternHistory[Len(engine.patternHistory)].generation = 9

\* the state after the bookkeeping of the 40th measure
C2_CycleCompleted ==
    /\ engine.measureCount = 40
    /\ engine.macroPhase = "DRIFT"
    /\ emitted(engine, "log", "SONG_GENERATE")

\* C3: with the melody lock set and a current pattern, evolvePattern(false)
\* leaves the current pattern, the generation counter, the history and the
\* elite archive as they are, and evolvePattern(true) replaces the current
\* pattern by one with another id.
C3_MelodyLockStopsUnforcedEvolution ==
    (engine.locks.melody /\ engine.currentPattern # NoPattern) =>
        /\ evolvePattern(entering, FALSE).currentPattern = engine.currentPattern
        /\ evolvePattern(entering, FALSE).currentGeneration = engine.currentGeneration
        /\ evolvePattern(entering, FALSE).patternHistory = engine.patternHistory
        /\ evolvePattern(entering, FALSE).elitePatterns = engine.elitePatterns
        /\ evolvePattern(entering, TRUE).currentPattern # NoPattern
        /\ evolvePattern(entering, TRUE).currentPattern.id # engine.currentPattern.id

\* a forced evolution has just replaced the pattern while the melody lock is set
C3_ForcedEvolutionUnderLock ==
    /\ engine.locks.melody
    /\ emitted(engine, "log", "EVOLUTION")

\* C4, as stated: in every state, manualMutate(target) regenerates the domain
\* of its target: a new pattern, a new patch, new rhythm genomes, each with
\* its notification.
C4_ManualMutateNeverBlocked ==
    /\ emitted(manualMutate(entering, "melody"), "pattern", "pattern")
    /\ emitted(manualMutate(entering, "timbre"), "patch", "patch")
    /\ emitted(manualMutate(entering, "rhythm"), "log", "RHYTHM_GEN")

\* C5: a measure's bookkeeping (rebirth included) and a bio-feedback snapshot
\* leave the patch alone while timbre is locked, leave root note, progression
\* and mood alone while harmony is locked, and leave both rhythm genomes alone
\* while rhythm is locked and the genomes exist.
C5_LockedDomainsUntouchedByAutonomousSteps ==
    [][(Measure \/ InjectBioFeedback) =>
          /\ engine.locks.timbre => engine'.currentPatch = engine.currentPatch
          /\ engine.locks.harmony =>
                /\ engine'.rootNote = engine.rootNote
                /\ engine'.currentProgression = engine.currentProgression
                /\ engine'.currentMood = engine.currentMood
                /\ engine'.currentScale = engine.currentScale
          /\ (engine.locks.rhythm /\ Len(engine.hiHatPattern) > 0) =>
                /\ engine'.hiHatPattern = engine.hiHatPattern
                /\ engine'.percussionPattern = engine.percussionPattern]_vars

\* a rebirth has just regenerated the song while harmony is locked
C5_RebirthUnderHarmonyLock ==
    /\ engine.locks.harmony
    /\ emitted(engine, "log", "MACRO_PHASE")
    /\ emitted(engine, "log", "SONG_GENERATE")

\* some lock that was set is clear after the step
lockCleared == \E name \in LockNames : engine.locks[name] /\ ~engine'.locks[name]

\* C6, as stated: togglePatternStep applied while evolution is autonomous sets
\* the melody lock in the same step; a measure's bookkeeping leaves the current
\* pattern alone while the melody lock is set; only setEvolutionState clears a
\* lock.
C6_EveryToggleLocksMelody ==
    [][/\ (TogglePatternStep /\ engine.isAutoEvolve) => engine'.locks.melody
       /\ (Measure /\ engine.locks.melody) => engine'.currentPattern = engine.currentPattern
       /\ lockCleared => SetEvolutionState]_vars

\* C6, amended: togglePatternStep applied while evolution is autonomous and a
\* current pattern exists sets the melody lock in the same step; a measure's
\* bookkeeping leaves the current pattern alone while the melody lock is set;
\* only setEvolutionState clears a lock.
C6_EditOfAPatternLocksMelody ==
    [][/\ (TogglePatternStep /\ engine.isAutoEvolve /\ engine.currentPattern # NoPattern)
             => engine'.locks.melody
       /\ (Measure /\ engine.locks.melody) => engine'.currentPattern = engine.currentPattern
       /\ lockCleared => SetEvolutionState]_vars

\* an evolution tick (a measure that is a multiple of 4) has just passed over a
\* melody locked by a user edit
C6_TickAfterEdit ==
    /\ engine.locks.melody
    /\ nOps > 0
    /\ emitted(engine, "tick", "tick")
    /\ engine.measureCount > 0
    /\ engine.measureCount % 4 = 0

\* C7: while the autonomous-evolution flag is off, a step that changes the
\* macro phase is a forcePhase; a measure's bookkeeping does not change it.
C7_ManualModePhaseChangesOnlyByForce ==
    [][/\ (~engine.isAutoEvolve /\ engine'.macroPhase # engine.macroPhase) => ForcePhase
       /\ (~engine.isAutoEvolve /\ Measure) => engine'.macroPhase = engine.macroPhase]_vars

\* a measure's bookkeeping has just run in manual mode with the phase timer at
\* or past the phase's duration
C7_TimerPastDurationInManualMode ==
    /\ ~engine.isAutoEvolve
    /\ emitted(engine, "tick", "tick")
    /\ engine.phaseTimer >= phaseLengths[engine.macroPhase]

\* C8: the elite archive holds at most 10 patterns, in non-increasing order of
\* score.
C8_EliteBoundedAndSorted ==
    /\ Len(engine.elitePatterns) <= 10
    /\ \A i \in 1..(Len(engine.elitePatterns) - 1) :
           engine.elitePatterns[i].score >= engine.elitePatterns[i + 1].score

\* an evolution has just run on a full archive whose scores differ
C8_FullArchive ==
    /\ emitted(engine, "log", "EVOLUTION")
    /\ Len(engine.elitePatterns) = 10
    /\ engine.elitePatterns[1].score > engine.elitePatterns[10].score

\* the outgoing pattern of an evolution, with the score it is given
outgoing == [engine.currentPattern EXCEPT !.score = calculateFitness(engine.currentPattern)]

\* C9: after every step, every pattern of the elite archive has a score above
\* 50 and no two have the same id; an evolution whose outgoing pattern scores 50
\* or less leaves the archive as it is; an evolution that leaves a candidate
\* (an archived pattern or the outgoing one, scoring above 50) out of the
\* archive leaves out one whose score is no higher than any score kept.
C9_EliteMembership ==
    [][/\ \A i \in DOMAIN engine'.elitePatterns : engine'.elitePatterns[i].score > 50
       /\ \A i, j \in DOMAIN engine'.elitePatterns :
              engine'.elitePatterns[i].id = engine'.elitePatterns[j].id => i = j
       /\ emitted(engine', "log", "EVOLUTION") =>
              /\ outgoing.score <= 50 => engine'.elitePatterns = engine.elitePatterns
              /\ outgoing.score > 50 =>
                    \A p \in (Range(engine.elitePatterns) \cup {outgoing})
                                 \ Range(engine'.elitePatterns) :
                        \A q \in Range(engine'.elitePatterns) : p.score <= q.score]_vars

\* an evolution has just archived its outgoing pattern in a full archive, from
\* which a pattern scoring above 50 that is still in the history is gone
C9_Eviction ==
    /\ emitted(engine, "log", "EVOLUTION")
    /\ Len(engine.elitePatterns) = 10
    /\ engine.patternHistory[Len(engine.patternHistory)] \in Range(engine.elitePatterns)
    /\ \E p \in Range(engine.patternHistory) :
           /\ p.score > 50
           /\ \A q \in Range(engine.elitePatterns) : q.id # p.id

\* C10: the pattern an evolution past genesis produces has 16 steps, 16
\* velocities and 16 offsets, whatever the strategy and whatever evolutions,
\* mood changes and step edits came before.
C10_EvolvedPatternsHaveSixteenSteps ==
    emitted(engine, "log", "EVOLUTION") =>
        /\ Len(engine.currentPattern.steps) = 16
        /\ Len(engine.currentPattern.velocity) = 16
        /\ Len(engine.currentPattern.offsets) = 16

\* a crossover with an archived pattern after an edit
C10_CrossoverAfterEdit ==
    /\ nOps > 0
    /\ evolvedBy("LEARNING_CROSSOVER")

\* values of the random generator under which the strategies are compared
RngSamples == {k * 4099 : k \in 0..15}

\* the engine about to choose a strategy, its generator at r
choosing(r) == [retire(entering) EXCEPT !.rng = r]

\* the genome of the current pattern, as the mutation loop takes it
genome(r) ==
    [rng |-> r, steps |-> engine.currentPattern.steps,
     velocity |-> engine.currentPattern.velocity, offsets |-> engine.currentPattern.offsets]

\* C11: an evolution that ends in a generation that is a multiple of 16 logs
\* MASS_EXTINCTION with that generation, and its new pattern is the outgoing one
\* after exactly 8 iterations of the mutation loop in mass-extinction mode;
\* whatever value the random generator has, the strategy chosen on that state is
\* MASS_EXTINCTION with 8 mutations and no crossover partner.
C11_MassExtinctionMutatesEightTimes ==
    [][(/\ engine.currentPattern # NoPattern
        /\ (engine.currentGeneration + 1) % 16 = 0
        /\ ManualMutate("melody")) =>
          /\ \E i \in DOMAIN engine'.out :
                /\ engine'.out[i].what = "EVOLUTION"
                /\ engine'.out[i].detail =
                       [action |-> "MASS_EXTINCTION", gen |-> engine.currentGeneration + 1]
          /\ engine'.currentPattern.parent = <<engine.currentPattern.id>>
          /\ engine'.currentPattern.steps =
                 mutate(genome(strategy(retire(entering)).rng), engine.currentScale,
                        TRUE, 8).steps
          /\ \A r \in RngSamples :
                /\ strategy(choosing(r)).action = "MASS_EXTINCTION"
                /\ strategy(choosing(r)).numMutations = 8
                /\ strategy(choosing(r)).partner = NoPattern]_vars

\* the 16th generation has just been bred, with patterns in the archive and in
\* the history that a crossover could have taken
C11_SixteenthGeneration ==
    /\ evolvedBy("MASS_EXTINCTION")
    /\ engine.currentGeneration = 16
    /\ Len(engine.elitePatterns) > 0
    /\ Len(engine.patternHistory) >= 2

\* the step is one call of evolvePattern on a current pattern: a forced one, or
\* the one of a measure's bookkeeping that was not preceded by a rebirth
evolves ==
    /\ engine.currentPattern # NoPattern
    /\ \/ ManualMutate("melody")
       \/ /\ Measure
          /\ emitted(engine', "log", "EVOLUTION")
          /\ ~emitted(engine', "log", "SONG_GENERATE")

\* C12: a call of evolvePattern on a current pattern that is not a no-op (every
\* forced call is none) logs an EVOLUTION, increases the generation counter by
\* exactly 1 and yields a pattern of the new generation with score 0 whose
\* parent descriptor starts with the id of the outgoing pattern; on the genesis
\* pattern (generation 0) it logs MUTATION or a crossover, which is the
\* LEARNING_CROSSOVER, for generation 1, and the parent descriptor holds the
\* genesis pattern's id.
C12_EvolutionAdvancesGeneration ==
    [][evolves =>
          /\ emitted(engine', "log", "EVOLUTION")
          /\ engine'.currentGeneration = engine.currentGeneration + 1
          /\ engine'.currentPattern.generation = engine'.currentGeneration
          /\ engine'.currentPattern.score = 0
          /\ engine'.currentPattern.parent[1] = engine.currentPattern.id
          /\ engine'.currentPattern.id # engine.currentPattern.id
          /\ engine.currentPattern.generation = 0 =>
                /\ engine'.currentGeneration = 1
                /\ \E i \in DOMAIN engine'.out :
                      /\ engine'.out[i].what = "EVOLUTION"
                      /\ engine'.out[i].detail.gen = 1
                      /\ engine'.out[i].detail.action \in {"MUTATION", "LEARNING_CROSSOVER"}
                /\ \A i \in DOMAIN engine'.currentPattern.parent :
                      engine'.currentPattern.parent[i] = engine.currentPattern.id]_vars

\* the second evolution after initialization has just crossed the genesis
\* pattern with its archived self
C12_SecondEvolution ==
    /\ engine.currentGeneration = 1
    /\ evolvedBy("LEARNING_CROSSOVER")
    /\ Len(engine.patternHistory) = 1
    /\ engine.patternHistory[1].generation = 0
    /\ engine.currentPattern.parent = <<engine.patternHistory[1].id, engine.patternHistory[1].id>>

\* the transport as the scheduler leaves it
transport(s) ==
    <<s.nextNoteTime, s.lastScheduled, s.current16thNote, s.measureCount, s.phaseTimer>>

\* C13: while the engine is stopped no timeout is pending, so that no
\* scheduler invocation can run: a timeout fires only while the engine plays,
\* and a step taken on a stopped engine that is not start() schedules no step,
\* runs no bookkeeping and leaves the transport as it is; stop() leaves the
\* engine stopped with no timer held, and a second stop() gives the same state.
C13_NoSchedulingWhileStopped ==
    [][/\ ~engine'.isPlaying => pendingTimers(engine') = {}
       /\ Scheduler => engine.isPlaying
       /\ (~engine.isPlaying /\ ~Start) =>
              /\ ~emitted(engine', "note", "note")
              /\ ~emitted(engine', "tick", "tick")
              /\ transport(engine') = transport(engine)
       /\ Stop =>
              /\ ~engine'.isPlaying
              /\ engine'.timerID = NULL
              /\ stop([engine' EXCEPT !.out = <<>>]) = engine']_vars

\* the engine was stopped inside a measure, and the clock has passed the time
\* at which the next step was due
C13_StoppedPastTheNextStep ==
    /\ ~engine.isPlaying
    /\ engine.current16thNote > 0
    /\ engine.currentTime > engine.nextNoteTime

\* the notifications of one kind made by the last operation
notified(s, kind) == {i \in DOMAIN s.out : s.out[i].kind = kind}

isNote(e) == e.kind = "note"

\* the steps the last operation scheduled, in the order of their scheduling
notesOf(s) == [i \in DOMAIN SelectSeq(s.out, isNote) |-> SelectSeq(s.out, isNote)[i].detail]

\* C14: the step index is in 0..15; a scheduler invocation that schedules n
\* steps schedules the indices current, current + 1, ... modulo 16, leaves the
\* index n further modulo 16, and adds to the measure counter, to the phase
\* timer and to the bookkeeping runs (one tick notification each) the number
\* of wraps from 15 to 0 among them; start() resets index and measure counter
\* with no bookkeeping; no other step changes them or runs the bookkeeping.
C14_StepIndexWrapsIntoMeasures ==
    [][/\ engine'.current16thNote \in 0..15
       /\ IF engine'.currentTime # engine.currentTime /\ Scheduler
          THEN LET notes == notesOf(engine')
                   wraps == (engine.current16thNote + Len(notes)) \div 16
               IN  /\ \A i \in DOMAIN notes :
                         notes[i].beat = (engine.current16thNote + i - 1) % 16
                   /\ engine'.current16thNote = (engine.current16thNote + Len(notes)) % 16
                   /\ engine'.measureCount = engine.measureCount + wraps
                   /\ Cardinality(notified(engine', "tick")) = wraps
                   /\ engine'.phaseTimer = engine.phaseTimer + wraps
          ELSE /\ notified(engine', "tick") = {}
               /\ notified(engine', "note") = {}
               /\ IF Start
                  THEN engine'.current16thNote = 0 /\ engine'.measureCount = 0
                  ELSE /\ engine'.current16thNote = engine.current16thNote
                       /\ engine'.measureCount = engine.measureCount]_vars

\* a scheduler invocation has just scheduled step 15, wrapped into the first
\* measure, run its bookkeeping, and gone on scheduling
C14_WrapInsideADrain ==
    /\ engine.measureCount = 1
    /\ emitted(engine, "tick", "tick")
    /\ engine.current16thNote > 0
    /\ Len(notesOf(engine)) > engine.current16thNote

\* every step the operation schedules is given a time after the time of the
\* step scheduled before it, in this operation or in an earlier one
scheduledLater ==
    LET notes == notesOf(engine')
    IN  /\ \A i \in DOMAIN notes :
               notes[i].time > (IF i = 1 THEN engine.lastScheduled ELSE notes[i - 1].time)
        /\ engine'.lastScheduled =
               (IF Len(notes) = 0 THEN engine.lastScheduled ELSE notes[Len(notes)].time)
        /\ engine'.nextNoteTime > engine'.lastScheduled

\* a tempo change leaves the time of the next step as it was computed
tempoKeepsNextStep ==
    (engine'.tempo # engine.tempo \/ (nOps' # nOps /\ (SetTempo \/ InjectBioFeedback))) =>
        /\ engine'.nextNoteTime = engine.nextNoteTime
        /\ engine'.lastScheduled = engine.lastScheduled

\* C15, as stated: over scheduler invocations, setTempo, bio-feedback
\* snapshots, stop and start the next-event time never decreases, every step
\* is scheduled later than every step scheduled before it, and a tempo change
\* leaves the next-event time as it is.
C15_NextNoteTimeNeverDecreases ==
    [][/\ engine'.nextNoteTime >= engine.nextNoteTime
       /\ scheduledLater
       /\ tempoKeepsNextStep]_vars

\* C15, amended: every step is scheduled later than every step scheduled
\* before it, and the next-event time is later than all of them; a tempo change
\* leaves the next-event time as it is; the next-event time never decreases
\* over scheduler invocations, setTempo, bio-feedback snapshots and stop, while
\* start() sets it to the clock plus 0.1 s, which can be earlier than it was.
C15_ScheduledTimesIncrease ==
    [][/\ scheduledLater
       /\ tempoKeepsNextStep
       /\ IF Start
          THEN engine'.nextNoteTime = engine'.currentTime + SCHEDULE_AHEAD_TIME
          ELSE engine'.nextNoteTime >= engine.nextNoteTime]_vars

\* the engine was restarted before the step that was next had become due:
\* start() has put the next-event time before the time it had
C15_RestartBeforeTheNextStep ==
    /\ emitted(engine, "log", "SEQUENCE_INITIATED")
    /\ engine.lastScheduled >= 0
    /\ engine.nextNoteTime < engine.lastScheduled + stepInterval(engine.tempo)

\* requests made of setTempo, in thousandths of a BPM
TempoProbes == {-5000, 0, 1, 59999, 60000, 138000, 200000, 200001, 999000}

\* C16: in every state, after setTempo and bio-feedback snapshots as after
\* any other step, the tempo is within [60, 200] BPM and the interval between
\* two steps is positive; setTempo stores the request clamped to [60, 200].
C16_TempoWithinRange ==
    /\ engine.tempo >= 60000
    /\ engine.tempo <= 200000
    /\ stepInterval(engine.tempo) > 0
    /\ \A bpm \in TempoProbes :
           setTempo(engine, bpm).tempo = Max(60000, Min(200000, bpm))

\* the scheduler has just drained several steps at the highest tempo, to
\* which a request beyond it was clamped
C16_DrainAtTheHighestTempo ==
    /\ engine.tempo = 200000
    /\ Len(notesOf(engine)) > 1
    /\ notesOf(engine)[2].time - notesOf(engine)[1].time = 7500

\* the notes generateCounterPattern can put against a step of the melody
counterNotes(mainNote, scale) ==
    IF mainNote # NULL
    THEN IF indexOf(scale, mainNote) # -1
         THEN {scale[((indexOf(scale, mainNote) + interval) % Len(scale)) + 1] + 12 :
                   interval \in {2, 4}}
         ELSE {mainNote + 4 + 12}
    ELSE {scale[(d % Len(scale)) + 1] + 12 : d \in {0, 2, 4, 1}}

\* counter is a counterpoint that generateCounterPattern can derive from main
\* in one of the scales
derivedFrom(counter, main) ==
    /\ counter # NoPattern
    /\ counter.id = <<"CNTR_">> \o sliceTo(main.id, 3)
    /\ counter.generation = main.generation
    /\ Len(counter.steps) = Len(main.steps)
    /\ \E scale \in Range(SCALES) :
           \A i \in DOMAIN counter.steps :
               \/ counter.steps[i] = NULL
               \/ counter.steps[i] \in counterNotes(main.steps[i], scale)

\* the melody: the notes of a pattern
melody(p) == IF p = NoPattern THEN <<>> ELSE <<p.id, p.steps, p.velocity, p.offsets>>

\* C17, as stated: a step that changes the melody (an evolution tick, a manual
\* melody mutation, a user step toggle) leaves a counterpoint derived from the
\* new melody, and a step that changes the counterpoint changes the melody.
C17_CounterpointFollowsEveryMelodyChange ==
    [][/\ melody(engine'.currentPattern) # melody(engine.currentPattern) =>
              derivedFrom(engine'.counterPattern, engine'.currentPattern)
       /\ engine'.counterPattern # engine.counterPattern =>
              melody(engine'.currentPattern) # melody(engine.currentPattern)]_vars

\* what the claim holds fixed for a pattern id
lineage(p) == <<p.steps, p.velocity, p.offsets, p.generation, p.parent>>

\* the patterns the engine has archived, and all the patterns it holds
archived(s) == Range(s.patternHistory) \cup Range(s.elitePatterns)

patternsOf(s) ==
    archived(s) \cup (IF s.currentPattern = NoPattern THEN {} ELSE {s.currentPattern})

\* C18, as stated: over every step, a pattern id the engine holds before and
\* after it has the same steps, velocities, offsets, generation and parent.
C18_PatternsNeverChange ==
    [][\A p \in patternsOf(engine), q \in patternsOf(engine') :
           p.id = q.id => lineage(p) = lineage(q)]_vars

\* C18, amended: a pattern of the history or of the elite archive keeps its
\* steps, velocities, offsets, generation and parent under its id; an evolution
\* makes a pattern with another id the current one and moves the outgoing
\* pattern into the history as it was; the only step that changes the current
\* pattern under its id is togglePatternStep.
C18_ArchivedPatternsNeverChange ==
    [][/\ \A p \in archived(engine), q \in patternsOf(engine') :
              p.id = q.id => lineage(p) = lineage(q)
       /\ (engine.currentPattern # NoPattern /\ emitted(engine', "log", "EVOLUTION")) =>
              /\ engine'.currentPattern.id # engine.currentPattern.id
              /\ engine'.patternHistory[Len(engine'.patternHistory)].id
                     = engine.currentPattern.id
              /\ lineage(engine'.patternHistory[Len(engine'.patternHistory)])
                     = lineage(engine.currentPattern)
       /\ (/\ engine.currentPattern # NoPattern
           /\ engine'.currentPattern.id = engine.currentPattern.id
           /\ lineage(engine'.currentPattern) # lineage(engine.currentPattern)) =>
              TogglePatternStep]_vars

\* a pattern bred by an evolution, with its ancestors in the history, has just
\* been edited in place
C18_EditAfterEvolution ==
    /\ emitted(engine, "log", "User Edit: Melody Locked")
    /\ emitted(engine, "pattern", "pattern")
    /\ Len(engine.patternHistory) > 0
    /\ engine.currentPattern.generation > 0

\* C19: forcePhase(p), for every phase p and in every state (autonomous or
\* manual, playing or stopped, whatever the phase and its timer), leaves the
\* macro phase at p and the phase timer at 0, and logs PHASE_FORCED; a
\* forcePhase step leaves the mode and the transport as they are.
C19_ForcePhaseSetsPhaseAndResetsTimer ==
    [][/\ \A p \in MacroPhases :
              /\ forcePhase(entering, p).macroPhase = p
              /\ forcePhase(entering, p).phaseTimer = 0
              /\ emitted(forcePhase(entering, p), "log", "PHASE_FORCED")
       /\ ForcePhase =>
              /\ engine'.phaseTimer = 0
              /\ engine'.isAutoEvolve = engine.isAutoEvolve
              /\ engine'.isPlaying = engine.isPlaying
              /\ engine'.measureCount = engine.measureCount]_vars

\* a phase was forced in manual mode after its timer had run
C19_ForcedInManualMode ==
    /\ emitted(engine, "log", "PHASE_FORCED")
    /\ ~engine.isAutoEvolve
    /\ engine.macroPhase = "COMEDOWN"
    /\ engine.measureCount > 0

\* the positions of the accents of a rhythm
accents(p) == {i \in DOMAIN p : p[i]}

least(S) == CHOOSE x \in S : \A y \in S : x <= y

\* the cyclic distance from the accent at i to the next accent
gap(p, i) ==
    IF \E j \in accents(p) : j > i
    THEN least({j \in accents(p) : j > i}) - i
    ELSE Len(p) - i + least(accents(p))

gaps(p) == {gap(p, i) : i \in accents(p)}

\* C20: for 1 <= pulses <= steps the pattern before rotation has `steps'
\* entries and `pulses' accents whose cyclic distances differ by at most 1,
\* and so has the rotated pattern; for (16, 4) the accents before rotation are
\* 4 apart.
C20_EuclideanAccentsEvenlySpaced ==
    nOps = 1 =>
        /\ Len(engine.pattern) = engine.steps
        /\ Cardinality(accents(engine.pattern)) = engine.pulses
        /\ \A a, b \in gaps(engine.pattern) : Abs(a - b) <= 1
        /\ Len(engine.rotated) = engine.steps
        /\ gaps(engine.rotated) = gaps(engine.pattern)
        /\ (engine.steps = 16 /\ engine.pulses = 4) =>
               /\ accents(engine.pattern) = {4, 8, 12, 16}
               /\ gaps(engine.pattern) = {4}

\* 5 accents over 16 steps: the distances are 3 and 4
C20_FiveOverSixteen ==
    /\ nOps = 1
    /\ engine.steps = 16
    /\ engine.pulses = 5
    /\ gaps(engine.pattern) = {3, 4}
    /\ engine.rotated # engine.pattern

\* the generator alone: for 0 <= pulses <= steps the pattern before rotation and
\* the pattern returned have `steps' entries, `pulses' of them accents
euclidCounts ==
    \A steps \in 1..MaxEuclidSteps, pulses \in 0..MaxEuclidSteps, r \in RotationDraws :
        pulses <= steps =>
            /\ Len(euclidBase(steps, pulses)) = steps
            /\ Cardinality(accents(euclidBase(steps, pulses))) = pulses
            /\ Len(getEuclideanPattern(steps, pulses, r)) = steps
            /\ Cardinality(accents(getEuclideanPattern(steps, pulses, r))) = pulses

\* C21: for every 0 <= pulses <= steps getEuclideanPattern returns `steps'
\* entries with exactly `pulses' accents, before and after its rotation; and in
\* every state from construction on the hi-hat genome has 16 entries with 4 to
\* 11 accents and the percussion genome 16 entries with 2 to 5 accents.
C21_RhythmGenomesWithinPulseRanges ==
    /\ euclidCounts
    /\ Len(engine.hiHatPattern) = 16
    /\ Cardinality(accents(engine.hiHatPattern)) \in 4..11
    /\ Len(engine.percussionPattern) = 16
    /\ Cardinality(accents(engine.percussionPattern)) \in 2..5

\* the rhythms were regenerated after construction, by a rebirth or a rhythm
\* mutation, and the hi-hat got the most accents it can get
C21_DensestHiHat ==
    /\ engine.ctx
    /\ emitted(engine, "log", "RHYTHM_GEN")
    /\ Cardinality(accents(engine.hiHatPattern)) = 11

\* the root on every second step: 8 evenly spaced notes covering the downbeats
rootsOnEvenSteps == [steps |-> [i \in 1..16 |-> IF i % 2 = 1 THEN 0 ELSE NULL]]

\* the degrees that earn a downbeat bonus
StableDegrees == {0, 3, 4, 5, 7, 12}

\* 16 notes, none of them on a stable degree
denseUnstable(steps) == \A i \in DOMAIN steps : steps[i] # NULL /\ steps[i] \notin StableDegrees

\* C22: the root on every second step scores strictly higher than every
\* 16-note pattern of non-stable degrees, and no pattern scores below 0.
C22_SteadyRootsBeatDenseUnstable ==
    nOps = 1 =>
        /\ engine.score >= 0
        /\ denseUnstable(engine.steps) =>
               calculateFitness(rootsOnEvenSteps) > engine.score

\* the best a 16-note pattern of non-stable degrees can do: one degree repeated,
\* 70 against the 100 of the steady roots
C22_BestDenseUnstable ==
    /\ nOps = 1
    /\ denseUnstable(engine.steps)
    /\ engine.score = 70
    /\ calculateFitness(rootsOnEvenSteps) = 100

\* the per-tick summaries of the last operation, in the order they were made
isTick(e) == e.kind = "tick"

ticksOf(s) == [i \in DOMAIN SelectSeq(s.out, isTick) |-> SelectSeq(s.out, isTick)[i].detail]

\* C23: every step handed to the audio context comes with a per-tick summary
\* that carries the step's index, the macro phase, the generation, the id of
\* the current pattern and the chaos scalar.
C23_TickForEveryScheduledStep ==
    [][/\ Len(ticksOf(engine')) = Len(notesOf(engine'))
       /\ \A i \in DOMAIN notesOf(engine') :
             /\ ticksOf(engine')[i].step = notesOf(engine')[i].beat
             /\ ticksOf(engine')[i].meta.phase \in MacroPhases
             /\ ticksOf(engine')[i].meta.gen >= 0
             /\ ticksOf(engine')[i].chaos \in 0..1000000]_vars

\* C26: after each of 100,000 integration steps from (0.1, 0, 0) the published
\* chaos scalar is within [0, 1]; the attractor's x stays within [-25, 25],
\* the range that the normalisation maps onto [0, 1].
C26_ChaosScalarWithinUnitInterval ==
    /\ engine.currentChaosVal >= 0
    /\ engine.currentChaosVal <= 1000000
    /\ Abs(engine.chaos.x) <= 25000000
    /\ nOps > 0 => engine.currentChaosVal = (engine.chaos.x + 25000000) \div 50

\* the last of the integration steps has been made
C26_AllStepsIntegrated ==
    /\ nOps = MaxChaosSteps
    /\ engine.chaos # fields(0).chaos
    /\ engine.currentChaosVal \in 1..999999

\* C24: a step that was a rest is a rest again after three successive
\* togglePatternStep calls on it, in every scale and for every random degree.
C24_ThreeTogglesReturnToRest ==
    nOps = 3 => engine.currentPattern.steps[engine.edited + 1] = NULL

\* C25: togglePatternStep called while there is no current pattern leaves the
\* whole engine as it was (no pattern, no lock, no notification); and while
\* there is no audio context no timer is pending, and scheduler and
\* scheduleNote return with nothing scheduled, notified or changed.
C25_NoOpsBeforeInitialization ==
    [][/\ (TogglePatternStep /\ engine.currentPattern = NoPattern) => engine' = entering
       /\ ~engine.ctx =>
              /\ pendingTimers(engine) = {}
              /\ scheduler(entering) = entering
              /\ scheduleNote(entering) = entering]_vars

\* a step was edited before the engine was initialized: nothing but the count
\* of the calls made tells the state from the constructed one
C25_EditBeforeInitialization ==
    /\ nOps = 1
    /\ ~engine.ctx
    /\ engine.currentPattern = NoPattern
    /\ \E k \in 0..MaxSeed : engine = constructed(SeedOf(k))

\* the engine plays with autonomous evolution enabled
autonomous == engine.isPlaying /\ engine.isAutoEvolve

\* k measures can still be played after each control call that may yet come
room(k) == engine.measureCount + k * (1 + MaxLiveOps - nOps) <= MaxLiveMeasures

\* the last operation has made a new current pattern
produced == emitted(engine, "log", "EVOLUTION")

\* C27: while the engine plays with autonomous evolution enabled and the host
\* fires the re-armed timer, every macro phase is eventually left, and from a
\* start every phase is eventually entered; while the melody lock is clear as
\* well, a new pattern is eventually produced after every pattern.
C27_PhasesLeftAndPatternsProduced ==
    /\ \A p \in MacroPhases :
          (autonomous /\ engine.macroPhase = p /\ room(16))
              ~> (engine.macroPhase # p \/ ~autonomous)
    /\ \A p \in MacroPhases :
          (autonomous /\ engine.measureCount = 0 /\ nOps = MaxLiveOps)
              ~> (engine.macroPhase = p \/ ~autonomous)
    /\ (autonomous /\ ~engine.locks.melody /\ produced /\ room(1))
           ~> (~produced \/ ~autonomous \/ engine.locks.melody)
    /\ (autonomous /\ ~engine.locks.melody /\ ~produced /\ room(4))
           ~> (produced \/ ~autonomous \/ engine.locks.melody)

\* the engine has been left playing to the last measure after the control
\* calls were made, and the bookkeeping of that measure has produced a pattern
C27_PlayedOutAfterControlCalls ==
    /\ nOps = MaxLiveOps
    /\ autonomous
    /\ ~engine.locks.melody
    /\ engine.measureCount = MaxLiveMeasures
    /\ produced

\* the last operation has replaced the current pattern by evolution
evolved(s) == emitted(s, "log", "EVOLUTION") \/ emitted(s, "log", "GENESIS")

\* C28: the bookkeeping of a measure evolves the pattern exactly when the
\* measure counter it has reached is a multiple of 4, the melody lock is clear
\* and autonomous evolution is enabled; otherwise it leaves the current
\* pattern, the counterpoint, the history and the archive as they were.
C28_EvolutionTickEveryFourthMeasure ==
    [][Measure =>
          /\ evolved(engine') <=>
                 /\ engine'.measureCount % 4 = 0
                 /\ ~engine.locks.melody
                 /\ engine.isAutoEvolve
          /\ ~evolved(engine') =>
                 /\ engine'.currentPattern = engine.currentPattern
                 /\ engine'.counterPattern = engine.counterPattern
                 /\ engine'.patternHistory = engine.patternHistory
                 /\ engine'.elitePatterns = engine.elitePatterns]_vars

\* the tick of the fourth measure found the melody locked and changed nothing
C28_TickUnderMelodyLock ==
    /\ emitted(engine, "tick", "tick")
    /\ engine.measureCount = 4
    /\ engine.isAutoEvolve
    /\ engine.locks.melody
    /\ ~evolved(engine)

\* the bookkeeping of the last measure has made an autonomous transition
transitioned(s) == emitted(s, "log", "MACRO_PHASE")

\* C29: with autonomous evolution enabled the bookkeeping of a measure leaves
\* the phase timer below the duration of the phase it leaves the engine in
\* (DRIFT 8, BUILD 8, PEAK 16, COMEDOWN 8) and at 0 after a transition; a
\* timer that was below the duration counts one more measure, and the
\* transition is made exactly when the count reaches the duration.
C29_PhaseTimerBelowDuration ==
    [][(Measure /\ engine.isAutoEvolve) =>
          /\ engine'.phaseTimer < phaseLengths[engine'.macroPhase]
          /\ transitioned(engine') => engine'.phaseTimer = 0
          /\ engine.phaseTimer < phaseLengths[engine.macroPhase] =>
                 /\ transitioned(engine') <=>
                        engine.phaseTimer + 1 = phaseLengths[engine.macroPhase]
                 /\ ~transitioned(engine') =>
                        /\ engine'.phaseTimer = engine.phaseTimer + 1
                        /\ engine'.macroPhase = engine.macroPhase]_vars

\* DRIFT has lasted its 8 measures from the start, no control call made
C29_DriftLastedEightMeasures ==
    /\ nOps = 0
    /\ engine.measureCount = 8
    /\ transitioned(engine)
    /\ engine.macroPhase = "BUILD"
    /\ engine.phaseTimer = 0

\* the song structure and the generation counter
song(s) ==
    <<s.rootNote, s.currentProgression, s.currentPatch, s.hiHatPattern, s.percussionPattern>>

\* C30: transitionPhase resets the generation counter and regenerates the song
\* structure when it leaves COMEDOWN and at no other phase; a measure whose
\* bookkeeping does not leave COMEDOWN leaves the song structure as it was and
\* changes the generation counter only by the evolution tick of that measure;
\* forcePhase, whatever the phase it forces and the phase it is called in,
\* leaves the generation counter and the song structure as they were.
C30_RebirthOnlyOutOfComedown ==
    [][/\ engine.macroPhase # "COMEDOWN" =>
              /\ song(transitionPhase(entering)) = song(engine)
              /\ transitionPhase(entering).currentGeneration = engine.currentGeneration
              /\ ~emitted(transitionPhase(entering), "log", "SONG_GENERATE")
       /\ (engine.macroPhase = "COMEDOWN" /\ engine.isAutoEvolve) =>
              /\ transitionPhase(entering).currentGeneration = 0
              /\ emitted(transitionPhase(entering), "log", "SONG_GENERATE")
       /\ Measure =>
              IF transitioned(engine') /\ engine.macroPhase = "COMEDOWN"
              THEN /\ emitted(engine', "log", "SONG_GENERATE")
                   /\ engine'.currentGeneration = (IF evolved(engine') THEN 1 ELSE 0)
              ELSE /\ ~emitted(engine', "log", "SONG_GENERATE")
                   /\ song(engine') = song(engine)
                   /\ engine'.currentGeneration =
                          engine.currentGeneration + (IF evolved(engine') THEN 1 ELSE 0)
       /\ ForcePhase =>
              /\ song(engine') = song(engine)
              /\ engine'.currentGeneration = engine.currentGeneration]_vars

\* the timed transition out of a COMEDOWN has restarted the generations, in a
\* measure without an evolution tick
C30_RebirthBetweenEvolutionTicks ==
    /\ transitioned(engine)
    /\ engine.macroPhase = "DRIFT"
    /\ emitted(engine, "log", "SONG_GENERATE")
    /\ engine.currentGeneration = 0
    /\ ~evolved(engine)

\* the strategy logged by the evolution that left the engine in s
bredBy(s, action) ==
    \E i \in DOMAIN s.out : s.out[i].what = "EVOLUTION" /\ s.out[i].detail.action = action

\* the ids of the patterns of a sequence
idsOf(patterns) == {patterns[i].id : i \in DOMAIN patterns}

\* the history without its most recent entry
earlier(history) == SubSeq(history, 1, Len(history) - 1)

\* C31: an evolution of a current pattern always yields a new current pattern.
\* It logs LEARNING_CROSSOVER only with a non-empty elite archive, whose member
\* the partner is; it logs CROSSOVER only with at least 2 patterns in the
\* history, and the partner is an entry before the most recent one, which is
\* the outgoing pattern; with an empty archive and fewer than 2 patterns in the
\* history it mutates.  The same holds of the strategy chosen on that state
\* whatever value the random generator has.
C31_StrategyNeverLacksPartner ==
    [][(engine.currentPattern # NoPattern /\ ManualMutate("melody")) =>
          /\ emitted(engine', "log", "EVOLUTION")
          /\ emitted(engine', "pattern", "pattern")
          /\ engine'.currentPattern # NoPattern
          /\ engine'.currentPattern.id # engine.currentPattern.id
          /\ engine'.patternHistory[Len(engine'.patternHistory)].id = engine.currentPattern.id
          /\ bredBy(engine', "LEARNING_CROSSOVER") =>
                /\ Len(engine'.elitePatterns) > 0
                /\ engine'.currentPattern.parent[2] \in idsOf(engine'.elitePatterns)
          /\ bredBy(engine', "CROSSOVER") =>
                /\ Len(engine'.patternHistory) >= 2
                /\ engine'.currentPattern.parent[2] \in idsOf(earlier(engine'.patternHistory))
                /\ engine'.currentPattern.parent[2] # engine.currentPattern.id
          /\ (Len(engine'.elitePatterns) = 0 /\ Len(engine'.patternHistory) < 2) =>
                /\ bredBy(engine', "MUTATION") \/ bredBy(engine', "MASS_EXTINCTION")
                /\ engine'.currentPattern.parent = <<engine.currentPattern.id>>
          /\ \A r \in RngSamples :
                /\ strategy(choosing(r)).action = "LEARNING_CROSSOVER" =>
                      /\ Len(choosing(r).elitePatterns) > 0
                      /\ strategy(choosing(r)).partner \in Range(choosing(r).elitePatterns)
                /\ strategy(choosing(r)).action = "CROSSOVER" =>
                      /\ Len(choosing(r).patternHistory) >= 2
                      /\ strategy(choosing(r)).partner
                             \in Range(earlier(choosing(r).patternHistory))
                      /\ strategy(choosing(r)).partner.id # engine.currentPattern.id
                /\ strategy(choosing(r)).action \in {"MUTATION", "MASS_EXTINCTION"} =>
                      /\ strategy(choosing(r)).partner = NoPattern
                      /\ strategy(choosing(r)).numMutations >= 1]_vars

\* a plain crossover has just taken its partner among three earlier patterns
\* of the history, the archive being empty or not
C31_CrossoverWithEarlierPattern ==
    /\ bredBy(engine, "CROSSOVER")
    /\ Len(engine.patternHistory) >= 4
    /\ engine.currentPattern.parent[2] \in idsOf(earlier(engine.patternHistory))

\* what a timbre mutation is to leave alone
besidesTimbre(s) ==
    <<s.rootNote, s.currentProgression, s.hiHatPattern, s.percussionPattern,
      s.currentPattern, s.currentGeneration>>

\* C32: manualMutate('timbre') leaves the root note, the chord progression, the
\* two rhythm genomes, the current pattern and the generation counter as they
\* were, whatever the locks, and with autonomous evolution enabled it replaces
\* the patch.
C32_TimbreMutationTouchesTimbreOnly ==
    [][ManualMutate("timbre") =>
          /\ besidesTimbre(engine') = besidesTimbre(engine)
          /\ engine.isAutoEvolve => emitted(engine', "patch", "patch")]_vars

\* the cutoff range of the control surface: updateParams of 0 and of 1
cutoffRange == [lo |-> updateParams(engine, 0, 0).filterCutoff,
                hi |-> updateParams(engine, 1000, 0).filterCutoff]

\* C33: whatever snapshots have been fed and wherever the cutoff slider was
\* put, the filter cutoff is inside the range of the control surface, 100 Hz
\* to 12000 Hz.
C33_CutoffWithinControlRange ==
    /\ engine.filterCutoff >= cutoffRange.lo
    /\ engine.filterCutoff <= cutoffRange.hi

\* C34: a bio-feedback snapshot leaves the four locks as they were.
C34_SnapshotLeavesLocks ==
    [][Snapshot => engine'.locks = engine.locks]_vars

\* C35: once the engine is initialized the chord index is an index of the
\* progression, which has 4 offsets and starts with 0, and the sounding chord
\* root is the root note plus the offset at the chord index.
C35_ChordRootFollowsProgression ==
    engine.ctx =>
        /\ Len(engine.currentProgression.rootOffsets) = 4
        /\ engine.currentProgression.rootOffsets[1] = 0
        /\ engine.currentChordIndex \in 0..3
        /\ engine.currentChordRoot =
               engine.rootNote + engine.currentProgression.rootOffsets[engine.currentChordIndex + 1]

\* C36, as stated: the generation field of the current pattern equals the
\* generation counter of the engine.
C36_PatternGenerationIsCounter ==
    engine.currentPattern # NoPattern =>
        engine.currentPattern.generation = engine.currentGeneration

\* C36, amended: the generation field of a pattern is the value of the
\* generation counter when the pattern was made.  After a genesis or an
\* evolution the two are equal; a step without one leaves the field of the
\* current pattern as it was and changes the counter only by a rebirth, which
\* sets it to 0; so the counter is the field of the current pattern, or 0
\* after a rebirth that no evolution has followed.
C36_PatternStampedAtBirth ==
    [][/\ evolved(engine') =>
              engine'.currentPattern.generation = engine'.currentGeneration
       /\ (~evolved(engine') /\ engine.currentPattern # NoPattern) =>
              /\ engine'.currentPattern # NoPattern
              /\ engine'.currentPattern.generation = engine.currentPattern.generation
              /\ engine'.currentGeneration # engine.currentGeneration =>
                    /\ Measure
                    /\ transitioned(engine')
                    /\ emitted(engine', "log", "SONG_GENERATE")
                    /\ engine'.currentGeneration = 0
       /\ engine'.currentPattern # NoPattern =>
              engine'.currentGeneration \in {engine'.currentPattern.generation, 0}]_vars

\* a rebirth under the melody lock has restarted the counter below the
\* generation of the pattern that plays on
C36_RebirthUnderMelodyLock ==
    /\ transitioned(engine)
    /\ emitted(engine, "log", "SONG_GENERATE")
    /\ engine.locks.melody
    /\ engine.currentGeneration = 0
    /\ engine.currentPattern # NoPattern
    /\ engine.currentPattern.generation > 0

\* the number of timeouts of the scheduler that are pending
timersPending(s) == (IF s.timerID = Pending THEN 1 ELSE 0) + s.orphans

\* C37: between operations at most one timeout of the scheduler is pending,
\* and one is pending exactly when the engine is playing; start() on a playing
\* engine changes nothing: it arms no timeout and leaves the step and measure
\* counters.
C37_OneTimerWhilePlaying ==
    /\ timersPending(engine) <= 1
    /\ timersPending(engine) = 1 <=> engine.isPlaying
    /\ engine.isPlaying =>
           /\ timersPending(start(entering)) = timersPending(engine)
           /\ start(entering).current16thNote = engine.current16thNote
           /\ start(entering).measureCount = engine.measureCount
           /\ start(entering) = entering

\* the engine has been started again after a stop, its timer having fired
\* before, and has one timeout pending
C37_RestartedAfterStop ==
    /\ emitted(engine, "log", "SEQUENCE_INITIATED")
    /\ engine.currentTime > 0
    /\ nOps > 0
    /\ engine.isPlaying
    /\ timersPending(engine) = 1

\* the density preset of each phase, in hundredths
densityPreset == [DRIFT |-> 20, BUILD |-> 60, PEAK |-> 90, COMEDOWN |-> 40]

\* C38: the note density is the preset of the current macro phase.
C38_DensityIsPhasePreset ==
    engine.noteDensity = densityPreset[engine.macroPhase]

\* the lengths of the three arrays of a pattern
lengths(p) == <<Len(p.steps), Len(p.velocity), Len(p.offsets)>>

\* C39: the steps, the velocities and the offsets of the current pattern have
\* 16 entries each, whatever indices togglePatternStep was called with.
C39_ArraysKeepSixteenEntries ==
    engine.currentPattern # NoPattern => lengths(engine.currentPattern) = <<16, 16, 16>>

\* C40: the history holds at most 5 patterns.  An evolution of a current
\* pattern (forced, or made by initialize()) appends the outgoing pattern,
\* scored, to the history, whose oldest entry it drops if there were 5, the
\* others keeping their order and their steps, velocities, offsets and
\* scores; the archive it leaves holds patterns it held before, as they were,
\* and possibly the outgoing one.  Every other step, a step toggle in
\* particular, leaves the history and the archive as they were.
C40_StoredPatternsNeverChange ==
    [][/\ Len(engine'.patternHistory) <= 5
       /\ IF evolved(engine') /\ engine.currentPattern # NoPattern
          THEN /\ engine'.patternHistory =
                      IF Len(engine.patternHistory) < 5
                      THEN Append(engine.patternHistory, outgoing)
                      ELSE Append(Tail(engine.patternHistory), outgoing)
               /\ Range(engine'.elitePatterns)
                      \subseteq (Range(engine.elitePatterns) \cup {outgoing})
          ELSE /\ engine'.patternHistory = engine.patternHistory
               /\ engine'.elitePatterns = engine.elitePatterns]_vars

\* an evolution has just dropped the oldest of 5 patterns of the history,
\* after a step of the pattern then current had been edited
C40_OldestDropped ==
    /\ emitted(engine, "log", "EVOLUTION")
    /\ nOps > 0
    /\ Len(engine.patternHistory) = 5
    /\ engine.patternHistory[1].generation > 0
    /\ engine.currentPattern.generation = engine.patternHistory[5].generation + 1

=============================================================================
